---- MODULE Spec2Model ----
(***************************************************************************)
(* A model of the architecture simulator: the RISC-V architectural state,  *)
(* the per-mnemonic instruction semantics, the single-cycle engine and the *)
(* five-stage pipeline engine.                                             *)
(*                                                                         *)
(* Python integers are unbounded and the register values are 32 bits wide, *)
(* which is more than a TLC integer holds.  An integer n is therefore      *)
(* modelled as the pair <<hi, lo>> with n = hi * 2^16 + lo and             *)
(* 0 <= lo < 2^16 (hi may be negative: floor representation).  A 32-bit    *)
(* unsigned value is a pair with 0 <= hi < 2^16.  Python's None is the     *)
(* empty tuple <<>> where an integer is optional.                          *)
(***************************************************************************)
EXTENDS Integers, Sequences, FiniteSets, TLC

(***************************************************************************)
(* Bounds of the model.                                                    *)
(***************************************************************************)
\* Longest program loaded into the instruction memory.
MaxProgLen == 3
\* Most engine steps taken in one run (cuts programs that loop forever).
MaxCycles == 40

(***************************************************************************)
(* Integers as <<hi, lo>> pairs.                                           *)
(***************************************************************************)
Half == 2 ^ 16
HalfSign == 2 ^ 15

\* Python's None for an optional integer, and for an optional register index.
None == <<>>
NoReg == 0 - 1

\* A local variable: value is evaluated once and In is evaluated on it.
Bind(value, In(_)) == CHOOSE result \in {In(v) : v \in {value}} : TRUE

\* The pair of a small integer literal.
PyInt(n) == <<n \div Half, n % Half>>
Norm(h, l) == <<h + (l \div Half), l % Half>>
Plus(a, b) == Norm(a[1] + b[1], a[2] + b[2])
Neg(a) == Norm(0 - a[1], 0 - a[2])
Minus(a, b) == Plus(a, Neg(b))
Less(a, b) == a[1] < b[1] \/ (a[1] = b[1] /\ a[2] < b[2])
LessEq(a, b) == a = b \/ Less(a, b)

\* fixedint.MutableUInt32(n) / fixedint.UInt32(n): n mod 2^32.
UInt32(a) == <<a[1] % Half, a[2]>>
\* fixedint.Int32(n): the two's-complement value of the low 32 bits of n.
Int32(a) ==
    LET h == a[1] % Half
    IN  <<IF h >= HalfSign THEN h - Half ELSE h, a[2]>>
\* fixedint.Int16(n): the two's-complement value of the low 16 bits of n.
Int16(a) == IF a[2] >= HalfSign THEN <<0 - 1, a[2]>> ELSE <<0, a[2]>>
\* fixedint.MutableUInt8(n), and the bytes of a 32-bit value (v[0:8], v[8:16], ...).
Byte0(a) == a[2] % 256
Byte1(a) == a[2] \div 256
Byte2(a) == (a[1] % Half) % 256
Byte3(a) == (a[1] % Half) \div 256
\* fixedint.Int8(b) of a byte b, as an integer pair.
Int8(b) == IF b >= 128 THEN PyInt(b - 256) ELSE PyInt(b)
\* The 32-bit value b3 b2 b1 b0 assembled from four bytes.
FromBytes(b0, b1, b2, b3) == <<b3 * 256 + b2, b1 * 256 + b0>>
\* n & ~1 and n & (2^32 - 2) on Python integers.
ClearBit0(a) == <<a[1], a[2] - (a[2] % 2)>>

TwoPow32 == <<Half, 0>>
MaxUInt32 == <<Half - 1, Half - 1>>
IsUInt32(a) == a[1] >= 0 /\ a[1] < Half /\ a[2] >= 0 /\ a[2] < Half

\* n mod 2^W for an address width W of at most 32 bits.
AddrMod(a, W) ==
    IF W >= 32 THEN UInt32(a)
    ELSE IF W > 16 THEN <<a[1] % (2 ^ (W - 16)), a[2]>>
    ELSE <<0, a[2] % (2 ^ W)>>
\* (a << n) mod 2^32 of a 32-bit value a, and a >> n of a Python integer
\* a of at most 32 bits (>> rounds down, so it is the arithmetic shift of
\* a negative a), for 0 <= n <= 32.
ShiftLeft(a, n) ==
    IF n >= 32 THEN PyInt(0)
    ELSE IF n >= 16 THEN UInt32(<<a[2] * (2 ^ (n - 16)), 0>>)
    ELSE UInt32(Norm((a[1] % Half) * (2 ^ n), a[2] * (2 ^ n)))
ShiftRight(a, n) ==
    IF n >= 16 THEN PyInt(a[1] \div (2 ^ (n - 16)))
    ELSE <<a[1] \div (2 ^ n), (a[2] \div (2 ^ n)) + ((a[1] % (2 ^ n)) * (2 ^ (16 - n)))>>
\* a << n of a Python integer a for 0 <= n <= 31, without a width: the
\* result is a Python integer (its upper part is one integer of the model,
\* so the result is below 2^47 in size).
PyShiftLeft(a, n) ==
    IF n >= 16 THEN <<((a[1] * Half) + a[2]) * (2 ^ (n - 16)), 0>>
    ELSE Norm(a[1] * (2 ^ n), a[2] * (2 ^ n))
\* The shift amount n of a non-negative Python integer, 32 for all n >= 32.
ShiftAmount(a) == IF a[1] # 0 \/ a[2] > 32 THEN 32 ELSE a[2]
\* n % 32 of a 32-bit value.
Mod32(a) == a[2] % 32
\* imm << 12 for a small integer imm, as a Python integer.
ShiftLeft12(imm) == <<imm \div 16, (imm % 16) * 4096>>

(***************************************************************************)
(* Errors.  Every exception is a record of the same shape; NoError stands  *)
(* for a call that returned normally.                                      *)
(***************************************************************************)
NoError ==
    [kind |-> "None", address |-> None, min_address_incl |-> None,
     max_address_incl |-> None, text |-> ""]
MemoryAddressError(address, min, max) ==
    [kind |-> "MemoryAddressError", address |-> address,
     min_address_incl |-> min, max_address_incl |-> max, text |-> "data memory"]
InstructionNotImplemented(mnemonic) ==
    [kind |-> "InstructionNotImplemented", address |-> None,
     min_address_incl |-> None, max_address_incl |-> None, text |-> mnemonic]
\* TypeError: a plain int has no slice.
TypeError(message) ==
    [kind |-> "TypeError", address |-> None, min_address_incl |-> None,
     max_address_incl |-> None, text |-> message]
NotSubscriptable == TypeError("'int' object is not subscriptable")
CsrException(message) ==
    [kind |-> "Exception", address |-> None, min_address_incl |-> None,
     max_address_incl |-> None, text |-> message]

(***************************************************************************)
(* Register file.                                                          *)
(***************************************************************************)
NumRegisters == 32

\* Registers.__setitem__: x0 stays 0 and there are only 32 registers.
RegistersSetItemNoGuard(registers, index, value) ==
    IF index >= 0 /\ index < 32
    THEN [registers EXCEPT ![index] = value]
    ELSE registers
RegistersSetItemNoUpperBound(registers, index, value) ==
    IF index > 0
    THEN [k \in (DOMAIN registers) \cup {index} |->
            IF k = index THEN value ELSE registers[k]]
    ELSE registers
RegistersSetItem(registers, index, value) ==
    IF index > 0 /\ index < 32
    THEN [registers EXCEPT ![index] = value]
    ELSE registers

\* RegisterFile(): Registers([MutableUInt32(0)] * 32).
RegisterFile == [i \in 0 .. (NumRegisters - 1) |-> PyInt(0)]

(***************************************************************************)
(* Byte-addressed memory.  memory_file maps the addresses that were        *)
(* written (integer pairs) to bytes.                                       *)
(***************************************************************************)
DefaultAddressLength == 32
\* Memory.min_bytes of a default-constructed data memory: 2^14.
DefaultMinBytes == PyInt(2 ^ 14)

Memory(address_length, min_bytes) ==
    [address_length |-> address_length, min_bytes |-> min_bytes,
     memory_file |-> << >>]

\* self.memory_file[key], with KeyError turned into 0 by the callers.
FileGet(memory_file, key) ==
    IF key \in DOMAIN memory_file THEN memory_file[key] ELSE 0
FilePut(memory_file, key, byte) ==
    [k \in (DOMAIN memory_file) \cup {key} |->
        IF k = key THEN byte ELSE memory_file[k]]

load_byte(mem, address) ==
    FileGet(mem.memory_file, AddrMod(address, mem.address_length))
store_byteNoWrap(mem, address, value) ==
    [mem EXCEPT !.memory_file = FilePut(@, address, value % 256)]
store_byte(mem, address, value) ==
    [mem EXCEPT !.memory_file =
        FilePut(@, AddrMod(address, mem.address_length), value % 256)]
load_halfword(mem, address) ==
    FromBytes(load_byte(mem, address), load_byte(mem, Plus(address, PyInt(1))), 0, 0)
store_halfwordLowByteOnly(mem, address, value) ==
    store_byte(mem, address, Byte0(value))
store_halfword(mem, address, value) ==
    LET m1 == store_byte(mem, address, Byte0(value))
    IN  store_byte(m1, Plus(address, PyInt(1)), Byte1(value))
load_word(mem, address) ==
    FromBytes(load_byte(mem, address),
              load_byte(mem, Plus(address, PyInt(1))),
              load_byte(mem, Plus(address, PyInt(2))),
              load_byte(mem, Plus(address, PyInt(3))))
store_wordBigEndian(mem, address, value) ==
    LET m1 == store_byte(mem, address, Byte3(value))
        m2 == store_byte(m1, Plus(address, PyInt(1)), Byte2(value))
        m3 == store_byte(m2, Plus(address, PyInt(2)), Byte1(value))
    IN  store_byte(m3, Plus(address, PyInt(3)), Byte0(value))
store_word(mem, address, value) ==
    LET m1 == store_byte(mem, address, Byte0(value))
        m2 == store_byte(m1, Plus(address, PyInt(1)), Byte1(value))
        m3 == store_byte(m2, Plus(address, PyInt(2)), Byte2(value))
    IN  store_byte(m3, Plus(address, PyInt(3)), Byte3(value))

\* The range check of the data memory: an access outside
\* [min_bytes, 2^W - 1] fails with MemoryAddressError.
MaxAddress(mem) == AddrMod(PyInt(0 - 1), mem.address_length)
AddressInRangeNoCheck(mem, address) == TRUE
AddressInRange(mem, address) ==
    /\ LessEq(mem.min_bytes, address)
    /\ LessEq(address, MaxAddress(mem))
AddressError(mem, address) ==
    IF AddressInRange(mem, address)
    THEN NoError
    ELSE MemoryAddressError(address, mem.min_bytes, MaxAddress(mem))

(***************************************************************************)
(* CSR register file: a Memory with a privilege level, whose accesses are  *)
(* checked.  CSR addresses are small integers.                             *)
(***************************************************************************)
CsrRegisterFile ==
    [address_length |-> DefaultAddressLength, min_bytes |-> PyInt(0),
     memory_file |-> << >>, privilege_level |-> 0]

\* address & 0b001100000000
PrivilegeBits(address) == ((address \div 256) % 4) * 256
\* address & 0b100000000000 and address & 0b010000000000
ReadOnlyBits(address) == (address \div 2048) % 2 = 1 /\ (address \div 1024) % 2 = 1

check_for_legal_address(csr, address) ==
    IF address < 0 \/ address > 4095
    THEN CsrException("illegal action: csr register does not exist")
    ELSE NoError
check_privilege_level(csr, address) ==
    IF PrivilegeBits(address) > csr.privilege_level
    THEN CsrException("illegal action: privilege level too low to access this csr register")
    ELSE NoError
check_read_onlyEitherBit(csr, address) ==
    IF (address \div 2048) % 2 = 1 \/ (address \div 1024) % 2 = 1
    THEN CsrException("illegal action: attempting to write into read-only csr register")
    ELSE NoError
check_read_only(csr, address) ==
    IF ReadOnlyBits(address)
    THEN CsrException("illegal action: attempting to write into read-only csr register")
    ELSE NoError

\* The first of the checks that fails, in the order the code runs them.
FirstError(errors) ==
    IF \E i \in 1 .. Len(errors) : errors[i] # NoError
    THEN errors[CHOOSE i \in 1 .. Len(errors) :
                    /\ errors[i] # NoError
                    /\ \A j \in 1 .. (i - 1) : errors[j] = NoError]
    ELSE NoError

\* CsrRegisterFile.load_word: the value (None when it raises) and the error.
csr_load_word(csr, address) ==
    LET err == FirstError(<<check_for_legal_address(csr, address),
                            check_privilege_level(csr, address)>>)
    IN  [value |-> IF err = NoError THEN load_word(csr, PyInt(address)) ELSE None,
         error |-> err]
\* CsrRegisterFile.store_word: the CSR file afterwards and the error.
csr_store_word(csr, address, value) ==
    LET err == FirstError(<<check_for_legal_address(csr, address),
                            check_privilege_level(csr, address),
                            check_read_only(csr, address)>>)
    IN  [csr |-> IF err = NoError THEN store_word(csr, PyInt(address), value) ELSE csr,
         error |-> err]

\* CsrRegisterFile.load_byte, load_halfword, store_byte, store_halfword.
csr_load_byte(csr, address) ==
    LET err == FirstError(<<check_for_legal_address(csr, address),
                            check_privilege_level(csr, address)>>)
    IN  [value |-> IF err = NoError THEN load_byte(csr, PyInt(address)) ELSE None,
         error |-> err]
csr_load_halfword(csr, address) ==
    LET err == FirstError(<<check_for_legal_address(csr, address),
                            check_privilege_level(csr, address)>>)
    IN  [value |-> IF err = NoError THEN load_halfword(csr, PyInt(address)) ELSE None,
         error |-> err]
csr_store_byte(csr, address, value) ==
    LET err == FirstError(<<check_for_legal_address(csr, address),
                            check_privilege_level(csr, address),
                            check_read_only(csr, address)>>)
    IN  [csr |-> IF err = NoError THEN store_byte(csr, PyInt(address), value) ELSE csr,
         error |-> err]
csr_store_halfword(csr, address, value) ==
    LET err == FirstError(<<check_for_legal_address(csr, address),
                            check_privilege_level(csr, address),
                            check_read_only(csr, address)>>)
    IN  [csr |-> IF err = NoError THEN store_halfword(csr, PyInt(address), value)
                 ELSE csr,
         error |-> err]

(***************************************************************************)
(* Architectural state.                                                    *)
(***************************************************************************)
PerformanceMetrics ==
    [instruction_count |-> 0, branch_count |-> 0, procedure_count |-> 0]

\* RiscvArchitecturalState(): the default-constructed state.  The
\* instruction memory is the same for both engines and is kept apart.
RiscvArchitecturalState ==
    [register_file |-> [hardwired |-> TRUE, registers |-> RegisterFile, plain |-> {}],
     memory |-> Memory(DefaultAddressLength, DefaultMinBytes),
     csr_registers |-> CsrRegisterFile,
     program_counter |-> PyInt(0),
     performance_metrics |-> PerformanceMetrics]

change_privilege_levelNoUpperBound(state, level) ==
    IF ~(level < 0)
    THEN [state EXCEPT !.csr_registers.privilege_level = level]
    ELSE state
change_privilege_level(state, level) ==
    IF ~(level < 0) /\ ~(level > 3)
    THEN [state EXCEPT !.csr_registers.privilege_level = level]
    ELSE state

\* instruction_at_pc: program_counter in instruction_memory.instructions.
instruction_at_pc(instructions, state) ==
    \E a \in DOMAIN instructions : state.program_counter = PyInt(a)
read_instruction(instructions, pc) ==
    instructions[CHOOSE a \in DOMAIN instructions : pc = PyInt(a)]

\* register_file.registers[i] and register_file.registers[i] = v.
Reg(state, i) == state.register_file.registers[i]
\* registers[index] is a plain Python int (an element of a list the caller
\* gave), not a fixedint value: register_file.plain holds these indices.
IsPlain(state, i) == i \in state.register_file.plain
\* registers[index] = value for a value of fixedint type.
SetRegGuarded(state, index, value) ==
    [state EXCEPT !.register_file.registers = RegistersSetItem(@, index, value),
                  !.register_file.plain = @ \ {index}]
SetReg(state, index, value) ==
    [state EXCEPT !.register_file.registers =
                      IF state.register_file.hardwired
                      THEN RegistersSetItem(@, index, value)
                      ELSE [@ EXCEPT ![index] = value],
                  !.register_file.plain = @ \ {index}]
\* registers[index] = value for a plain int: the element is plain afterwards
\* if the write took place.
SetRegPlain(state, index, value) ==
    LET s1 == SetReg(state, index, value)
    IN  IF s1.register_file.registers[index] = value
           /\ (~state.register_file.hardwired \/ (index > 0 /\ index < 32))
        THEN [s1 EXCEPT !.register_file.plain = @ \cup {index}]
        ELSE s1

(***************************************************************************)
(* Range-checked accesses of the data memory (read_byte ... write_word).   *)
(* A read gives the value (None when it raises) and the error; a write     *)
(* gives the memory afterwards and the error.                              *)
(***************************************************************************)
read_byte(mem, address) ==
    LET err == AddressError(mem, address)
    IN  [value |-> IF err = NoError THEN load_byte(mem, address) ELSE 0,
         error |-> err]
read_halfword(mem, address) ==
    LET err == AddressError(mem, address)
    IN  [value |-> IF err = NoError THEN load_halfword(mem, address) ELSE None,
         error |-> err]
read_word(mem, address) ==
    LET err == AddressError(mem, address)
    IN  [value |-> IF err = NoError THEN load_word(mem, address) ELSE None,
         error |-> err]
write_byte(mem, address, value) ==
    LET err == AddressError(mem, address)
    IN  [memory |-> IF err = NoError THEN store_byte(mem, address, value) ELSE mem,
         error |-> err]
write_halfword(mem, address, value) ==
    LET err == AddressError(mem, address)
    IN  [memory |-> IF err = NoError THEN store_halfword(mem, address, value) ELSE mem,
         error |-> err]
write_word(mem, address, value) ==
    LET err == AddressError(mem, address)
    IN  [memory |-> IF err = NoError THEN store_word(mem, address, value) ELSE mem,
         error |-> err]

(***************************************************************************)
(* Decoded instructions.  One record shape for every form; a field the     *)
(* form does not have is NoReg (registers) or 0 (imm, csr).                *)
(***************************************************************************)
\* Instruction.length: most instructions are 4 bytes long.
InstructionLength == 4

RTypeMnemonics == {"add", "sub", "sll", "slt", "sltu", "xor", "srl", "sra", "or", "and"}
ITypeMnemonics == {"addi", "slti", "sltiu", "xori", "ori", "andi", "jalr", "ecall", "ebreak"}
ShiftITypeMnemonics == {"slli", "srli", "srai"}
MemoryITypeMnemonics == {"lb", "lh", "lw", "lbu", "lhu"}
STypeMnemonics == {"sb", "sh", "sw"}
BTypeMnemonics == {"beq", "bne", "blt", "bge", "bltu", "bgeu"}
UTypeMnemonics == {"lui", "auipc"}
JTypeMnemonics == {"jal"}
CSRTypeMnemonics == {"csrrw", "csrrs", "csrrc"}
CSRITypeMnemonics == {"csrrwi", "csrrsi", "csrrci"}

Instr(mnemonic, rd, rs1, rs2, imm, csr) ==
    [mnemonic |-> mnemonic, rd |-> rd, rs1 |-> rs1, rs2 |-> rs2, imm |-> imm,
     csr |-> csr]

\* (imm & (2^(n-1) - 1)) - (imm & 2^(n-1)): n-bit sign extension.
SignExtend(imm, n) ==
    (imm % (2 ^ (n - 1))) - (((imm \div (2 ^ (n - 1))) % 2) * (2 ^ (n - 1)))

RTypeInstruction(mnemonic, rd, rs1, rs2) == Instr(mnemonic, rd, rs1, rs2, 0, 0)
ITypeInstructionZeroExtended(mnemonic, rd, rs1, imm) ==
    Instr(mnemonic, rd, rs1, NoReg, imm % 4096, 0)
ITypeInstruction(mnemonic, rd, rs1, imm) ==
    Instr(mnemonic, rd, rs1, NoReg, SignExtend(imm, 12), 0)
ShiftITypeInstructionUnmasked(mnemonic, rd, rs1, imm) ==
    Instr(mnemonic, rd, rs1, NoReg, imm, 0)
ShiftITypeInstruction(mnemonic, rd, rs1, imm) ==
    Instr(mnemonic, rd, rs1, NoReg, imm % 32, 0)
STypeInstruction(mnemonic, rs1, rs2, imm) ==
    Instr(mnemonic, NoReg, rs1, rs2, SignExtend(imm, 12), 0)
BTypeInstruction(mnemonic, rs1, rs2, imm) ==
    Instr(mnemonic, NoReg, rs1, rs2, SignExtend(imm, 12), 0)
UTypeInstruction(mnemonic, rd, imm) ==
    Instr(mnemonic, rd, NoReg, NoReg, SignExtend(imm, 20), 0)
JTypeInstruction(mnemonic, rd, imm) ==
    Instr(mnemonic, rd, NoReg, NoReg, SignExtend(imm, 20), 0)
CSRTypeInstruction(mnemonic, rd, csr, rs1) == Instr(mnemonic, rd, rs1, NoReg, 0, csr)
CSRITypeInstruction(mnemonic, rd, csr, uimm) ==
    Instr(mnemonic, rd, NoReg, NoReg, uimm % 32, csr)
\* The bubble of a pipeline slot.
EmptyInstruction == Instr("EmptyInstruction", NoReg, NoReg, NoReg, 0, 0)
\* An instruction without operands (fence).
FenceTypeInstruction(mnemonic) == Instr(mnemonic, NoReg, NoReg, NoReg, 0, 0)

\* instr.__repr__(): the mnemonic and the operands in the order the text
\* prints them (a B- or J-type prints imm * 2).
Repr(instr) ==
    LET m == instr.mnemonic
    IN  CASE m \in RTypeMnemonics -> <<m, instr.rd, instr.rs1, instr.rs2>>
          [] m \in {"ecall", "ebreak"} -> <<m>>
          [] m \in MemoryITypeMnemonics -> <<m, instr.rd, instr.imm, instr.rs1>>
          [] m \in ITypeMnemonics \cup ShiftITypeMnemonics ->
                <<m, instr.rd, instr.rs1, instr.imm>>
          [] m \in STypeMnemonics -> <<m, instr.rs2, instr.imm, instr.rs1>>
          [] m \in BTypeMnemonics -> <<m, instr.rs1, instr.rs2, instr.imm * 2>>
          [] m \in UTypeMnemonics -> <<m, instr.rd, instr.imm>>
          [] m \in JTypeMnemonics -> <<m, instr.rd, instr.imm * 2>>
          [] m \in CSRTypeMnemonics -> <<m, instr.rd, instr.csr, instr.rs1>>
          [] m \in CSRITypeMnemonics -> <<m, instr.rd, instr.csr, instr.imm>>
          [] OTHER -> <<m, InstructionLength>>

(***************************************************************************)
(* behavior(state): the monolithic semantics of each mnemonic.  The result *)
(* is the state the call leaves (also when it raises: what was changed     *)
(* before the raise stays changed) and the error it raised.                *)
(***************************************************************************)
Returned(state) == [state |-> state, error |-> NoError]
Raised(state, error) == [state |-> state, error |-> error]

\* a op b on values of a fixed number of bits, bit by bit; op maps a pair of
\* bits to a bit.
RECURSIVE Bitwise(_, _, _, _)
Bitwise(op, a, b, bits) ==
    IF bits = 0 THEN 0
    ELSE op[<<a % 2, b % 2>>] + (2 * Bitwise(op, a \div 2, b \div 2, bits - 1))
BitOr == [p \in {0, 1} \X {0, 1} |-> IF p[1] + p[2] > 0 THEN 1 ELSE 0]
BitAnd == [p \in {0, 1} \X {0, 1} |-> p[1] * p[2]]
BitXor == [p \in {0, 1} \X {0, 1} |-> (p[1] + p[2]) % 2]
\* a op b on Python ints: two's complement with the sign bit repeated for ever,
\* so the bits above the last one that differs from the sign are the sign.
RECURSIVE BitwiseInt(_, _, _)
BitwiseInt(op, a, b) ==
    IF a \in {0, 0 - 1} /\ b \in {0, 0 - 1}
    THEN 0 - op[<<a % 2, b % 2>>]
    ELSE op[<<a % 2, b % 2>>] + (2 * BitwiseInt(op, a \div 2, b \div 2))
\* a | b, a & b, a ^ b on integer pairs, and ~a = -a - 1.
PyBitwise(op, a, b) ==
    Bind(<<a, b>>, LAMBDA p :
        <<BitwiseInt(op, p[1][1], p[2][1]), Bitwise(op, p[1][2], p[2][2], 16)>>)
Invert(a) == Minus(PyInt(0 - 1), a)

Bool32(b) == IF b THEN PyInt(1) ELSE PyInt(0)

\* add, sub, sll, slt, sltu, xor, srl, sra, or, and.  add, xor, or and and
\* store rs1 op rs2 as Python computes it on the two register values: a value
\* of fixedint type wraps the result to 32 bits, two plain ints give a plain
\* int of any size.  sll and srl store rs1 << rs2 and rs1 >> rs2 with
\* rs2 = registers[rs2] % MutableUInt32(32): a shift has the type of its left
\* operand, so a plain rs1 gives a plain int that is not wrapped.
RTypeBehavior(instr, state) ==
    LET rs1 == Reg(state, instr.rs1)
        rs2 == Reg(state, instr.rs2)
        untyped == \/ /\ instr.mnemonic \in {"add", "xor", "or", "and"}
                      /\ IsPlain(state, instr.rs1) /\ IsPlain(state, instr.rs2)
                   \/ /\ instr.mnemonic \in {"sll", "srl"}
                      /\ IsPlain(state, instr.rs1)
        Typed(v) == IF untyped THEN v ELSE UInt32(v)
        value ==
            CASE instr.mnemonic = "add" -> Typed(Plus(rs1, rs2))
              [] instr.mnemonic = "xor" -> Typed(PyBitwise(BitXor, rs1, rs2))
              [] instr.mnemonic = "or" -> Typed(PyBitwise(BitOr, rs1, rs2))
              [] instr.mnemonic = "and" -> Typed(PyBitwise(BitAnd, rs1, rs2))
              [] instr.mnemonic = "sub" ->
                    UInt32(Int32(Minus(Int32(rs1), Int32(rs2))))
              [] instr.mnemonic = "slt" -> Bool32(Less(Int32(rs1), Int32(rs2)))
              [] instr.mnemonic = "sltu" -> Bool32(Less(rs1, rs2))
              [] instr.mnemonic = "sll" ->
                    IF untyped THEN PyShiftLeft(rs1, Mod32(rs2))
                    ELSE UInt32(ShiftLeft(rs1, Mod32(rs2)))
              [] instr.mnemonic = "srl" -> Typed(ShiftRight(rs1, Mod32(rs2)))
              [] instr.mnemonic = "sra" ->
                    UInt32(ShiftRight(Int32(rs1), Mod32(rs2)))
    IN  Returned(IF untyped
                 THEN SetRegPlain(state, instr.rd, value)
                 ELSE SetReg(state, instr.rd, value))

\* addi, slti, sltiu, xori, ori, andi.
ITypeBehavior(instr, state) ==
    LET rs1 == Reg(state, instr.rs1)
        imm == PyInt(instr.imm)
        value ==
            CASE instr.mnemonic = "addi" -> UInt32(Plus(rs1, UInt32(imm)))
              [] instr.mnemonic = "slti" -> Bool32(Less(Int32(rs1), Int32(imm)))
              [] instr.mnemonic = "sltiu" -> Bool32(Less(rs1, UInt32(imm)))
              [] instr.mnemonic = "xori" ->
                    UInt32(PyBitwise(BitXor, rs1, UInt32(imm)))
              [] instr.mnemonic = "ori" ->
                    UInt32(PyBitwise(BitOr, rs1, UInt32(imm)))
              [] instr.mnemonic = "andi" ->
                    UInt32(PyBitwise(BitAnd, rs1, UInt32(imm)))
    IN  Returned(SetReg(state, instr.rd, value))

\* slli, srli, srai: the shift amount is the imm of the instruction.  slli
\* and srli store rs1 << MutableUInt32(imm) and rs1 >> MutableUInt32(imm): a
\* plain int for a plain rs1, not wrapped.
ShiftITypeBehavior(instr, state) ==
    LET rs1 == Reg(state, instr.rs1)
        shamt == ShiftAmount(UInt32(PyInt(instr.imm)))
        untyped == instr.mnemonic \in {"slli", "srli"} /\ IsPlain(state, instr.rs1)
        value ==
            CASE instr.mnemonic = "slli" ->
                    IF untyped THEN PyShiftLeft(rs1, shamt)
                    ELSE UInt32(ShiftLeft(rs1, shamt))
              [] instr.mnemonic = "srli" ->
                    IF untyped THEN ShiftRight(rs1, shamt)
                    ELSE UInt32(ShiftRight(rs1, shamt))
              [] instr.mnemonic = "srai" ->
                    UInt32(ShiftRight(Int32(rs1), ShiftAmount(PyInt(instr.imm % Half))))
    IN  Returned(IF untyped
                 THEN SetRegPlain(state, instr.rd, value)
                 ELSE SetReg(state, instr.rd, value))

LoadBehaviorUnchecked(instr, state) ==
    LET m == instr.mnemonic
        rs1 == IF m \in {"lbu", "lhu"}
               THEN Int32(Reg(state, instr.rs1))
               ELSE Reg(state, instr.rs1)
        address == Plus(rs1, PyInt(instr.imm))
        value == CASE m = "lb" -> UInt32(Int8(load_byte(state.memory, address)))
                   [] m = "lbu" -> UInt32(PyInt(load_byte(state.memory, address)))
                   [] m = "lh" -> UInt32(Int16(load_halfword(state.memory, address)))
                   [] m = "lhu" -> UInt32(load_halfword(state.memory, address))
                   [] m = "lw" -> UInt32(load_word(state.memory, address))
    IN  Returned(SetReg(state, instr.rd, value))
\* lb, lh, lw, lbu, lhu.  lbu and lhu take rs1 as a signed value.
LoadBehavior(instr, state) ==
    LET m == instr.mnemonic
        rs1 == IF m \in {"lbu", "lhu"}
               THEN Int32(Reg(state, instr.rs1))
               ELSE Reg(state, instr.rs1)
        address == Plus(rs1, PyInt(instr.imm))
        read == CASE m \in {"lb", "lbu"} -> read_byte(state.memory, address)
                  [] m \in {"lh", "lhu"} -> read_halfword(state.memory, address)
                  [] m = "lw" -> read_word(state.memory, address)
        value == CASE m = "lb" -> UInt32(Int8(read.value))
                   [] m = "lbu" -> UInt32(PyInt(read.value))
                   [] m = "lh" -> UInt32(Int16(read.value))
                   [] m \in {"lhu", "lw"} -> UInt32(read.value)
    IN  IF read.error # NoError
        THEN Raised(state, read.error)
        ELSE Returned(SetReg(state, instr.rd, value))

\* sb, sh, sw.  sb and sh slice the register value (registers[rs2][:8],
\* [:16]) before they write: a plain int has no slice and raises TypeError.
StoreBehavior(instr, state) ==
    LET m == instr.mnemonic
        rs1 == Reg(state, instr.rs1)
        rs2 == Reg(state, instr.rs2)
        address == UInt32(Plus(rs1, UInt32(PyInt(instr.imm))))
        write == CASE m = "sb" -> write_byte(state.memory, address, Byte0(rs2))
                   [] m = "sh" -> write_halfword(state.memory, address, rs2)
                   [] m = "sw" -> write_word(state.memory, address, rs2)
    IN  IF m \in {"sb", "sh"} /\ IsPlain(state, instr.rs2)
        THEN Raised(state, NotSubscriptable)
        ELSE IF write.error # NoError
        THEN Raised(state, write.error)
        ELSE Returned([state EXCEPT !.memory = write.memory])

\* The branch condition on the register values, as behavior evaluates it.
BranchCondition(mnemonic, rs1, rs2) ==
    CASE mnemonic = "beq" -> rs1 = rs2
      [] mnemonic = "bne" -> rs1 # rs2
      [] mnemonic = "blt" -> Less(Int32(rs1), Int32(rs2))
      [] mnemonic = "bge" -> ~Less(Int32(rs1), Int32(rs2))
      [] mnemonic = "bltu" -> Less(rs1, rs2)
      [] mnemonic = "bgeu" -> ~Less(rs1, rs2)

\* beq ... bgeu: if the condition holds, pc += imm - length, branch_count += 1.
BranchTargetOffsetNoLength(instr) == PyInt(instr.imm)
BranchTargetOffset(instr) == PyInt(instr.imm - InstructionLength)
BranchBehaviorCountingNotTaken(instr, state) ==
    IF BranchCondition(instr.mnemonic, Reg(state, instr.rs1), Reg(state, instr.rs2))
    THEN Returned([state EXCEPT
            !.program_counter = Plus(@, BranchTargetOffset(instr)),
            !.performance_metrics.branch_count = @ + 1])
    ELSE Returned([state EXCEPT !.performance_metrics.branch_count = @ + 1])
BranchBehavior(instr, state) ==
    IF BranchCondition(instr.mnemonic, Reg(state, instr.rs1), Reg(state, instr.rs2))
    THEN Returned([state EXCEPT
            !.program_counter = Plus(@, BranchTargetOffset(instr)),
            !.performance_metrics.branch_count = @ + 1])
    ELSE Returned(state)

\* lui, auipc.
UTypeBehavior(instr, state) ==
    LET imm == ShiftLeft12(instr.imm)
        value == IF instr.mnemonic = "lui"
                 THEN UInt32(imm)
                 ELSE UInt32(Plus(state.program_counter, imm))
    IN  Returned(SetReg(state, instr.rd, value))

\* jal: x[rd] = pc + 4; pc += imm - length; procedure_count += 1.
JalBehavior(instr, state) ==
    LET s1 == SetReg(state, instr.rd, UInt32(Plus(state.program_counter, PyInt(4))))
    IN  Returned([s1 EXCEPT
            !.program_counter = Plus(@, PyInt(instr.imm - InstructionLength)),
            !.performance_metrics.procedure_count = @ + 1])

\* jalr: t = pc + 4; pc = ((x[rs1] + sext(imm)) & ~1) - length; x[rd] = t.
JalrBehavior(instr, state) ==
    LET rs1 == Int32(Reg(state, instr.rs1))
        s1 == SetReg(state, instr.rd, UInt32(Plus(state.program_counter, PyInt(4))))
        target == ClearBit0(UInt32(Int32(Plus(rs1, Int16(PyInt(instr.imm))))))
    IN  Returned([s1 EXCEPT
            !.program_counter = Minus(target, PyInt(InstructionLength))])

\* csrrw: x[rd] = csr[csr]; csr[csr] = x[rs1], in this order.
CsrrwBehavior(instr, state) ==
    LET read == csr_load_word(state.csr_registers, instr.csr)
        s1 == SetReg(state, instr.rd, read.value)
        write == csr_store_word(s1.csr_registers, instr.csr, Reg(s1, instr.rs1))
    IN  IF read.error # NoError THEN Raised(state, read.error)
        ELSE IF write.error # NoError THEN Raised(s1, write.error)
        ELSE Returned([s1 EXCEPT !.csr_registers = write.csr])

\* csrrwi: x[rd] = csr[csr]; csr[csr] = zext(uimm).
CsrrwiBehavior(instr, state) ==
    LET read == csr_load_word(state.csr_registers, instr.csr)
        s1 == SetReg(state, instr.rd, read.value)
        write == csr_store_word(s1.csr_registers, instr.csr, UInt32(PyInt(instr.imm)))
    IN  IF read.error # NoError THEN Raised(state, read.error)
        ELSE IF write.error # NoError THEN Raised(s1, write.error)
        ELSE Returned([s1 EXCEPT !.csr_registers = write.csr])

\* csrrs, csrrc: x[rs1] is read first, then x[rd] = csr[csr] and
\* csr[csr] = csr[csr] | x[rs1] (csrrs) or csr[csr] & ~x[rs1] (csrrc).
CsrrsBehavior(instr, state) ==
    LET rs1_value == Reg(state, instr.rs1)
        read == csr_load_word(state.csr_registers, instr.csr)
        s1 == SetReg(state, instr.rd, read.value)
        temp == IF instr.mnemonic = "csrrs"
                THEN UInt32(PyBitwise(BitOr, read.value, rs1_value))
                ELSE UInt32(PyBitwise(BitAnd, read.value, Invert(rs1_value)))
        write == csr_store_word(s1.csr_registers, instr.csr, temp)
    IN  IF read.error # NoError THEN Raised(state, read.error)
        ELSE IF write.error # NoError THEN Raised(s1, write.error)
        ELSE Returned([s1 EXCEPT !.csr_registers = write.csr])

\* csrrsi, csrrci: x[rd] = csr[csr] and csr[csr] = csr[csr] | zext(uimm)
\* (csrrsi) or csr[csr] & ~zext(uimm) (csrrci).
CsrrsiBehavior(instr, state) ==
    LET uimm == UInt32(PyInt(instr.imm))
        read == csr_load_word(state.csr_registers, instr.csr)
        s1 == SetReg(state, instr.rd, read.value)
        temp == IF instr.mnemonic = "csrrsi"
                THEN UInt32(PyBitwise(BitOr, read.value, uimm))
                ELSE UInt32(PyBitwise(BitAnd, read.value, UInt32(Invert(uimm))))
        write == csr_store_word(s1.csr_registers, instr.csr, temp)
    IN  IF read.error # NoError THEN Raised(state, read.error)
        ELSE IF write.error # NoError THEN Raised(s1, write.error)
        ELSE Returned([s1 EXCEPT !.csr_registers = write.csr])

\* ecall, ebreak, fence: raise InstructionNotImplemented(mnemonic).
UnimplementedBehaviorSilent(instr, state) == Returned(state)
UnimplementedBehavior(instr, state) ==
    Raised(state, InstructionNotImplemented(instr.mnemonic))

behavior(instr, state) ==
    LET m == instr.mnemonic
    IN  CASE m \in RTypeMnemonics -> RTypeBehavior(instr, state)
          [] m \in {"addi", "slti", "sltiu", "xori", "ori", "andi"} ->
                ITypeBehavior(instr, state)
          [] m \in ShiftITypeMnemonics -> ShiftITypeBehavior(instr, state)
          [] m \in MemoryITypeMnemonics -> LoadBehavior(instr, state)
          [] m \in STypeMnemonics -> StoreBehavior(instr, state)
          [] m \in BTypeMnemonics -> BranchBehavior(instr, state)
          [] m \in UTypeMnemonics -> UTypeBehavior(instr, state)
          [] m = "jal" -> JalBehavior(instr, state)
          [] m = "jalr" -> JalrBehavior(instr, state)
          [] m = "csrrw" -> CsrrwBehavior(instr, state)
          [] m = "csrrwi" -> CsrrwiBehavior(instr, state)
          [] m \in {"csrrs", "csrrc"} -> CsrrsBehavior(instr, state)
          [] m \in {"csrrsi", "csrrci"} -> CsrrsiBehavior(instr, state)
          [] m \in {"ecall", "ebreak", "fence"} -> UnimplementedBehavior(instr, state)
          [] OTHER -> Returned(state)

(***************************************************************************)
(* The datapath hooks of an instruction, used by the pipeline stages.      *)
(***************************************************************************)
\* Python's None, True and False where a value is an optional boolean.
TriNone == "None"
Tri(b) == IF b THEN "True" ELSE "False"

\* ControlUnitSignals(): a None signal is modelled as FALSE (the stages only
\* test the signals for truth) and a None wb_src as NoReg.
ControlUnitSignals(alu_src_1, alu_src_2, wb_src, reg_write, mem_read, mem_write, branch, jump, alu_to_pc) ==
    [alu_src_1 |-> alu_src_1, alu_src_2 |-> alu_src_2, wb_src |-> wb_src,
     reg_write |-> reg_write, mem_read |-> mem_read, mem_write |-> mem_write,
     branch |-> branch, jump |-> jump, alu_to_pc |-> alu_to_pc]
DefaultControlUnitSignals ==
    ControlUnitSignals(FALSE, FALSE, NoReg, FALSE, FALSE, FALSE, FALSE, FALSE, FALSE)

control_unit_signals(instr) ==
    LET m == instr.mnemonic
    IN  CASE m = "jalr" ->
                ControlUnitSignals(TRUE, TRUE, 0, TRUE, FALSE, FALSE, FALSE, FALSE, TRUE)
          [] m = "lui" ->
                ControlUnitSignals(FALSE, FALSE, 3, TRUE, FALSE, FALSE, FALSE, FALSE, FALSE)
          [] m = "auipc" ->
                ControlUnitSignals(FALSE, TRUE, 2, TRUE, FALSE, FALSE, FALSE, FALSE, FALSE)
          [] m \in RTypeMnemonics ->
                ControlUnitSignals(TRUE, FALSE, 2, TRUE, FALSE, FALSE, FALSE, FALSE, FALSE)
          [] m \in ITypeMnemonics \cup ShiftITypeMnemonics ->
                ControlUnitSignals(TRUE, TRUE, 2, TRUE, FALSE, FALSE, FALSE, FALSE, FALSE)
          [] m \in MemoryITypeMnemonics ->
                ControlUnitSignals(TRUE, TRUE, 1, TRUE, TRUE, FALSE, FALSE, FALSE, FALSE)
          [] m \in STypeMnemonics ->
                ControlUnitSignals(TRUE, TRUE, NoReg, FALSE, FALSE, TRUE, FALSE, FALSE, FALSE)
          [] m \in BTypeMnemonics ->
                ControlUnitSignals(TRUE, FALSE, NoReg, FALSE, FALSE, FALSE, TRUE, FALSE, FALSE)
          [] m \in JTypeMnemonics ->
                ControlUnitSignals(FALSE, FALSE, 0, TRUE, FALSE, FALSE, FALSE, TRUE, FALSE)
          [] OTHER -> DefaultControlUnitSignals

\* access_register_file: (ra1, ra2, rd1, rd2, imm), read at decode time, and
\* the error it raises (sb and sh slice registers[rs2], which a plain int
\* does not have).
RegisterAccess(ra1, ra2, rd1, rd2, imm) ==
    [register_read_addr_1 |-> ra1, register_read_addr_2 |-> ra2,
     register_read_data_1 |-> rd1, register_read_data_2 |-> rd2, imm |-> imm,
     error |-> NoError]
access_register_file(instr, state) ==
    LET m == instr.mnemonic
    IN  CASE m \in {"sb", "sh"} /\ IsPlain(state, instr.rs2) ->
                [RegisterAccess(NoReg, NoReg, None, None, None) EXCEPT
                    !.error = NotSubscriptable]
          [] m = "sb" ->
                RegisterAccess(instr.rs1, instr.rs2, Reg(state, instr.rs1),
                               PyInt(Byte0(Reg(state, instr.rs2))), PyInt(instr.imm))
          [] m = "sh" ->
                RegisterAccess(instr.rs1, instr.rs2, Reg(state, instr.rs1),
                               <<0, Reg(state, instr.rs2)[2]>>, PyInt(instr.imm))
          [] m = "sw" ->
                RegisterAccess(instr.rs1, instr.rs2, Reg(state, instr.rs1),
                               Reg(state, instr.rs2), PyInt(instr.imm))
          [] m \in RTypeMnemonics ->
                RegisterAccess(instr.rs1, instr.rs2, Reg(state, instr.rs1),
                               Reg(state, instr.rs2), None)
          [] m \in ITypeMnemonics \cup ShiftITypeMnemonics \cup MemoryITypeMnemonics ->
                RegisterAccess(instr.rs1, NoReg, Reg(state, instr.rs1), None,
                               PyInt(instr.imm))
          [] m \in BTypeMnemonics ->
                RegisterAccess(instr.rs1, instr.rs2, Reg(state, instr.rs1),
                               Reg(state, instr.rs2), PyInt(instr.imm))
          [] m \in UTypeMnemonics ->
                RegisterAccess(NoReg, NoReg, None, None, ShiftLeft12(instr.imm))
          [] m \in JTypeMnemonics ->
                RegisterAccess(NoReg, NoReg, None, None, PyInt(instr.imm))
          [] OTHER -> RegisterAccess(NoReg, NoReg, None, None, None)

\* get_write_register: rd, or None (NoReg) for a form without rd.
get_write_register(instr) ==
    IF instr.mnemonic \in RTypeMnemonics \cup ITypeMnemonics \cup ShiftITypeMnemonics
                          \cup MemoryITypeMnemonics \cup UTypeMnemonics
                          \cup JTypeMnemonics
    THEN instr.rd
    ELSE NoReg

\* alu_compute(alu_in_1, alu_in_2): (branch_taken, result).
AluResult(comparison, result) == [comparison |-> comparison, result |-> result]
alu_compute(instr, alu_in_1, alu_in_2) ==
    LET m == instr.mnemonic
    IN  CASE m \in {"add", "addi"} ->
                AluResult(TriNone, UInt32(Plus(UInt32(alu_in_1), UInt32(alu_in_2))))
          [] m = "sub" ->
                AluResult(TriNone,
                          Int32(Minus(Int32(UInt32(alu_in_1)), Int32(UInt32(alu_in_2)))))
          [] m \in {"slt", "slti"} ->
                AluResult(TriNone, Bool32(Less(Int32(alu_in_1), Int32(alu_in_2))))
          [] m \in {"sltu", "sltiu"} ->
                AluResult(TriNone, Bool32(Less(UInt32(alu_in_1), UInt32(alu_in_2))))
          [] m = "sll" ->
                AluResult(TriNone,
                          UInt32(ShiftLeft(UInt32(alu_in_1), Mod32(UInt32(alu_in_2)))))
          [] m = "srl" ->
                AluResult(TriNone, ShiftRight(UInt32(alu_in_1), Mod32(UInt32(alu_in_2))))
          [] m = "sra" ->
                AluResult(TriNone, ShiftRight(Int32(alu_in_1), Mod32(UInt32(alu_in_2))))
          [] m \in {"xor", "xori"} ->
                AluResult(TriNone, PyBitwise(BitXor, UInt32(alu_in_1), UInt32(alu_in_2)))
          [] m \in {"or", "ori"} ->
                AluResult(TriNone, PyBitwise(BitOr, UInt32(alu_in_1), UInt32(alu_in_2)))
          [] m \in {"and", "andi"} ->
                AluResult(TriNone, PyBitwise(BitAnd, UInt32(alu_in_1), UInt32(alu_in_2)))
          [] m = "slli" ->
                AluResult(TriNone,
                          UInt32(ShiftLeft(UInt32(alu_in_1), ShiftAmount(UInt32(alu_in_2)))))
          [] m = "srli" ->
                AluResult(TriNone,
                          ShiftRight(UInt32(alu_in_1), ShiftAmount(UInt32(alu_in_2))))
          [] m = "srai" ->
                AluResult(TriNone, ShiftRight(Int32(alu_in_1), ShiftAmount(alu_in_2)))
          [] m \in MemoryITypeMnemonics \cup STypeMnemonics ->
                AluResult(TriNone, Plus(UInt32(alu_in_1), alu_in_2))
          [] m = "jalr" -> AluResult(TriNone, ClearBit0(Plus(alu_in_1, alu_in_2)))
          [] m = "auipc" -> AluResult(TriNone, Plus(alu_in_1, alu_in_2))
          [] m = "beq" -> AluResult(Tri(alu_in_1 = alu_in_2), None)
          [] m = "bne" -> AluResult(Tri(alu_in_1 # alu_in_2), None)
          [] m = "blt" -> AluResult(Tri(Less(Int32(alu_in_1), Int32(alu_in_2))), None)
          [] m = "bge" -> AluResult(Tri(~Less(Int32(alu_in_1), Int32(alu_in_2))), None)
          [] m = "bltu" -> AluResult(Tri(Less(alu_in_1, alu_in_2)), None)
          [] m = "bgeu" -> AluResult(Tri(~Less(alu_in_1, alu_in_2)), None)
          [] OTHER -> AluResult(TriNone, None)

\* memory_access(memory_address, memory_write_data, state): the data read
\* (None for an instruction that reads nothing), the memory and the error.
MemoryAccess(read_data, memory, error) ==
    [memory_read_data |-> read_data, memory |-> memory, error |-> error]
memory_access(instr, memory_address, memory_write_data, state) ==
    LET m == instr.mnemonic
        mem == state.memory
    IN  CASE m \in {"lb", "lbu"} ->
                LET r == read_byte(mem, memory_address)
                IN  MemoryAccess(IF r.error # NoError THEN None
                                 ELSE IF m = "lb" THEN Int8(r.value)
                                 ELSE PyInt(r.value),
                                 mem, r.error)
          [] m \in {"lh", "lhu"} ->
                LET r == read_halfword(mem, memory_address)
                IN  MemoryAccess(IF r.error # NoError THEN None
                                 ELSE IF m = "lh" THEN Int16(r.value)
                                 ELSE r.value,
                                 mem, r.error)
          [] m = "lw" ->
                LET r == read_word(mem, memory_address)
                IN  MemoryAccess(r.value, mem, r.error)
          [] m \in STypeMnemonics /\ memory_address # None /\ memory_write_data # None ->
                LET w == CASE m = "sb" ->
                                write_byte(mem, memory_address, Byte0(memory_write_data))
                           [] m = "sh" ->
                                write_halfword(mem, memory_address, memory_write_data)
                           [] m = "sw" ->
                                write_word(mem, memory_address, UInt32(memory_write_data))
                IN  MemoryAccess(None, w.memory, w.error)
          [] OTHER -> MemoryAccess(None, mem, NoError)

\* write_back(write_register, register_write_data, state).
write_back(instr, write_register, register_write_data, state) ==
    IF /\ control_unit_signals(instr).reg_write
       /\ write_register # NoReg
       /\ register_write_data # None
    THEN SetReg(state, write_register, UInt32(register_write_data))
    ELSE state

(***************************************************************************)
(* Pipeline registers.  One record shape for the six register classes;     *)
(* kind names the class, and a field a class does not set keeps the value  *)
(* of the default-constructed PipelineRegister.                            *)
(***************************************************************************)
\* FlushSignal(inclusive, address); no flush signal is None.
FlushSignal(inclusive, address) == <<inclusive, address>>

PipelineRegister ==
    [kind |-> "PipelineRegister",
     instruction |-> EmptyInstruction,
     address_of_instruction |-> None,
     flush_signal |-> None,
     branch_prediction |-> TriNone,
     pc_plus_instruction_length |-> None,
     register_read_addr_1 |-> NoReg,
     register_read_addr_2 |-> NoReg,
     register_read_data_1 |-> None,
     register_read_data_2 |-> None,
     imm |-> None,
     write_register |-> NoReg,
     control_unit_signals |-> DefaultControlUnitSignals,
     alu_in_1 |-> None,
     alu_in_2 |-> None,
     result |-> None,
     comparison |-> TriNone,
     pc_plus_imm |-> None,
     memory_read_data |-> None,
     comparison_or_jump |-> TriNone,
     register_write_data |-> None]
InstructionFetchPipelineRegister == [PipelineRegister EXCEPT !.kind = "IF"]
InstructionDecodePipelineRegister == [PipelineRegister EXCEPT !.kind = "ID"]
ExecutePipelineRegister == [PipelineRegister EXCEPT !.kind = "EX"]
MemoryAccessPipelineRegister == [PipelineRegister EXCEPT !.kind = "MEM"]
RegisterWritebackPipelineRegister == [PipelineRegister EXCEPT !.kind = "WB"]

\* The register fields hold: memory_address and alu_result are result, and
\* memory_write_data is register_read_data_2 (the stages copy them so).
\* What a stage's behavior gives: its output register, the state it leaves
\* and the error it raised.
StageResult(register, state, error) ==
    [register |-> register, state |-> state, error |-> error]

InstructionFetchStageNoAdvance(instructions, pipeline_registers, own, state) ==
    IF ~instruction_at_pc(instructions, state)
    THEN StageResult(InstructionFetchPipelineRegister, state, NoError)
    ELSE StageResult(
            [InstructionFetchPipelineRegister EXCEPT
                !.instruction = read_instruction(instructions, state.program_counter),
                !.address_of_instruction = state.program_counter,
                !.branch_prediction = Tri(FALSE),
                !.pc_plus_instruction_length =
                    Plus(state.program_counter, PyInt(InstructionLength))],
            state, NoError)

(***************************************************************************)
(* The five stages.                                                        *)
(***************************************************************************)
InstructionFetchStage(instructions, pipeline_registers, own, state) ==
    IF ~instruction_at_pc(instructions, state)
    THEN StageResult(InstructionFetchPipelineRegister, state, NoError)
    ELSE
        LET address_of_instruction == state.program_counter
            instruction == read_instruction(instructions, address_of_instruction)
        IN  StageResult(
                [InstructionFetchPipelineRegister EXCEPT
                    !.instruction = instruction,
                    !.address_of_instruction = address_of_instruction,
                    !.branch_prediction = Tri(FALSE),
                    !.pc_plus_instruction_length =
                        Plus(address_of_instruction, PyInt(InstructionLength))],
                [state EXCEPT !.program_counter = Plus(@, PyInt(InstructionLength))],
                NoError)

\* InstructionDecodeStage(stages_until_writeback=2, detect_data_hazards=True).
StagesUntilWriteback == 2

WriteRegistersOfNextStage(pipeline_registers, own) ==
    [i \in 1 .. 1 |-> get_write_register(pipeline_registers[own + i].instruction)]
WriteRegistersFromOwnStage(pipeline_registers, own) ==
    [i \in 1 .. StagesUntilWriteback |->
        get_write_register(pipeline_registers[own + i - 1].instruction)]
WriteRegistersSkippingNextStage(pipeline_registers, own) ==
    [i \in 1 .. StagesUntilWriteback |->
        get_write_register(pipeline_registers[own + i + 1].instruction)]
\* The write registers of the later stages that are not done, in list order.
WriteRegistersOfLaterStages(pipeline_registers, own) ==
    [i \in 1 .. StagesUntilWriteback |->
        get_write_register(pipeline_registers[own + i].instruction)]

\* The hazard loop: some later write register, neither None nor 0, is ra1 or ra2.
DataHazardIncludingZero(write_registers, ra1, ra2) ==
    \E i \in DOMAIN write_registers :
        /\ write_registers[i] # NoReg
        /\ (ra1 = write_registers[i] \/ ra2 = write_registers[i])
DataHazard(write_registers, ra1, ra2) ==
    \E i \in DOMAIN write_registers :
        /\ write_registers[i] # NoReg
        /\ write_registers[i] # 0
        /\ (ra1 = write_registers[i] \/ ra2 = write_registers[i])

InstructionDecodeStage(detect_data_hazards, pipeline_registers, own, state) ==
    LET pipeline_register == pipeline_registers[own]
    IN  IF pipeline_register.kind # "IF"
        THEN StageResult(InstructionDecodePipelineRegister, state, NoError)
        ELSE
            LET access == access_register_file(pipeline_register.instruction, state)
                write_register == get_write_register(pipeline_register.instruction)
                flush_signal ==
                    IF /\ detect_data_hazards
                       /\ DataHazard(WriteRegistersOfLaterStages(pipeline_registers, own),
                                     access.register_read_addr_1,
                                     access.register_read_addr_2)
                    THEN FlushSignal(TRUE, pipeline_register.address_of_instruction)
                    ELSE None
            IN  IF access.error # NoError
                THEN StageResult(PipelineRegister, state, access.error)
                ELSE StageResult(
                    [InstructionDecodePipelineRegister EXCEPT
                        !.instruction = pipeline_register.instruction,
                        !.register_read_addr_1 = access.register_read_addr_1,
                        !.register_read_addr_2 = access.register_read_addr_2,
                        !.register_read_data_1 = access.register_read_data_1,
                        !.register_read_data_2 = access.register_read_data_2,
                        !.imm = access.imm,
                        !.write_register = write_register,
                        !.control_unit_signals =
                            control_unit_signals(pipeline_register.instruction),
                        !.branch_prediction = pipeline_register.branch_prediction,
                        !.flush_signal = flush_signal,
                        !.pc_plus_instruction_length =
                            pipeline_register.pc_plus_instruction_length,
                        !.address_of_instruction =
                            pipeline_register.address_of_instruction],
                    state, NoError)

ExecuteStage(pipeline_registers, own, state) ==
    LET pipeline_register == pipeline_registers[own]
    IN  IF pipeline_register.kind # "ID"
        THEN StageResult(ExecutePipelineRegister, state, NoError)
        ELSE
            LET alu_in_1 == IF pipeline_register.control_unit_signals.alu_src_1
                            THEN pipeline_register.register_read_data_1
                            ELSE pipeline_register.address_of_instruction
                alu_in_2 == IF pipeline_register.control_unit_signals.alu_src_2
                            THEN pipeline_register.imm
                            ELSE pipeline_register.register_read_data_2
                alu == alu_compute(pipeline_register.instruction, alu_in_1, alu_in_2)
                pc_plus_imm ==
                    IF /\ pipeline_register.imm # None
                       /\ pipeline_register.address_of_instruction # None
                    THEN Plus(pipeline_register.imm,
                              pipeline_register.address_of_instruction)
                    ELSE None
            IN  StageResult(
                    [ExecutePipelineRegister EXCEPT
                        !.instruction = pipeline_register.instruction,
                        !.alu_in_1 = alu_in_1,
                        !.alu_in_2 = alu_in_2,
                        !.register_read_data_1 = pipeline_register.register_read_data_1,
                        !.register_read_data_2 = pipeline_register.register_read_data_2,
                        !.imm = pipeline_register.imm,
                        !.result = alu.result,
                        !.comparison = alu.comparison,
                        !.write_register = pipeline_register.write_register,
                        !.control_unit_signals = pipeline_register.control_unit_signals,
                        !.pc_plus_imm = pc_plus_imm,
                        !.branch_prediction = pipeline_register.branch_prediction,
                        !.pc_plus_instruction_length =
                            pipeline_register.pc_plus_instruction_length,
                        !.address_of_instruction =
                            pipeline_register.address_of_instruction],
                    state, NoError)

\* jump or comparison, on Python's None, True and False.
ComparisonOrJump(jump, comparison) == IF jump THEN Tri(TRUE) ELSE comparison

MemoryAccessFlushSignalJumpOnly(pipeline_register) ==
    IF pipeline_register.control_unit_signals.jump
    THEN FlushSignal(FALSE, pipeline_register.pc_plus_imm)
    ELSE IF pipeline_register.control_unit_signals.alu_to_pc
    THEN FlushSignal(FALSE, pipeline_register.result)
    ELSE None
MemoryAccessFlushSignalInclusive(pipeline_register) ==
    IF \/ pipeline_register.control_unit_signals.jump
       \/ /\ pipeline_register.control_unit_signals.branch
          /\ pipeline_register.comparison # pipeline_register.branch_prediction
    THEN FlushSignal(TRUE, pipeline_register.pc_plus_imm)
    ELSE IF pipeline_register.control_unit_signals.alu_to_pc
    THEN FlushSignal(TRUE, pipeline_register.result)
    ELSE None
\* The flush signal MEM emits for the instruction in its input register.
MemoryAccessFlushSignal(pipeline_register) ==
    LET comparison_or_jump ==
            ComparisonOrJump(pipeline_register.control_unit_signals.jump,
                             pipeline_register.comparison)
        incorrect_branch_prediction ==
            /\ pipeline_register.control_unit_signals.branch
            /\ comparison_or_jump # pipeline_register.branch_prediction
    IN  IF incorrect_branch_prediction \/ pipeline_register.control_unit_signals.jump
        THEN FlushSignal(FALSE, pipeline_register.pc_plus_imm)
        ELSE IF pipeline_register.control_unit_signals.alu_to_pc
        THEN FlushSignal(FALSE, pipeline_register.result)
        ELSE None

AfterMemoryAccessInWriteback(state, access) == state
AfterMemoryAccessCounting(state, access) ==
    [state EXCEPT !.memory = access.memory,
                  !.performance_metrics.instruction_count = @ + 1]
\* instruction.memory_access(..., architectural_state=state) acts on the
\* state MEM was given.
AfterMemoryAccess(state, access) == [state EXCEPT !.memory = access.memory]

MemoryAccessStage(pipeline_registers, own, state) ==
    LET pipeline_register == pipeline_registers[own]
    IN  IF pipeline_register.kind # "EX"
        THEN StageResult(MemoryAccessPipelineRegister, state, NoError)
        ELSE
            LET access == memory_access(pipeline_register.instruction,
                                        pipeline_register.result,
                                        pipeline_register.register_read_data_2, state)
                flush_signal == MemoryAccessFlushSignal(pipeline_register)
                s1 == AfterMemoryAccess(state, access)
                s2 == IF flush_signal = None THEN s1
                      ELSE IF pipeline_register.instruction.mnemonic \in BTypeMnemonics
                      THEN [s1 EXCEPT !.performance_metrics.branch_count = @ + 1]
                      ELSE IF pipeline_register.instruction.mnemonic = "jal"
                      THEN [s1 EXCEPT !.performance_metrics.procedure_count = @ + 1]
                      ELSE s1
            IN  IF access.error # NoError
                THEN StageResult(PipelineRegister, state, access.error)
                ELSE StageResult(
                        [MemoryAccessPipelineRegister EXCEPT
                            !.instruction = pipeline_register.instruction,
                            !.result = pipeline_register.result,
                            !.register_read_data_2 =
                                pipeline_register.register_read_data_2,
                            !.memory_read_data = access.memory_read_data,
                            !.comparison = pipeline_register.comparison,
                            !.comparison_or_jump =
                                ComparisonOrJump(
                                    pipeline_register.control_unit_signals.jump,
                                    pipeline_register.comparison),
                            !.write_register = pipeline_register.write_register,
                            !.control_unit_signals =
                                pipeline_register.control_unit_signals,
                            !.pc_plus_imm = pipeline_register.pc_plus_imm,
                            !.flush_signal = flush_signal,
                            !.pc_plus_instruction_length =
                                pipeline_register.pc_plus_instruction_length,
                            !.imm = pipeline_register.imm,
                            !.address_of_instruction =
                                pipeline_register.address_of_instruction],
                        s2, NoError)

\* The data WB selects by wb_src: pc + length, memory, ALU result or imm.
RegisterWriteData(pipeline_register) ==
    LET wb_src == pipeline_register.control_unit_signals.wb_src
    IN  CASE wb_src = 0 -> pipeline_register.pc_plus_instruction_length
          [] wb_src = 1 -> pipeline_register.memory_read_data
          [] wb_src = 2 -> pipeline_register.result
          [] wb_src = 3 -> pipeline_register.imm
          [] OTHER -> None

CountsAlways(instruction) == TRUE
Counts(instruction) == instruction # EmptyInstruction

RegisterWritebackStage(pipeline_registers, own, state) ==
    LET pipeline_register == pipeline_registers[own]
    IN  IF pipeline_register.kind # "MEM"
        THEN StageResult(RegisterWritebackPipelineRegister, state, NoError)
        ELSE
            LET s1 == IF Counts(pipeline_register.instruction)
                      THEN [state EXCEPT
                                !.performance_metrics.instruction_count = @ + 1]
                      ELSE state
                register_write_data == RegisterWriteData(pipeline_register)
            IN  StageResult(
                    [RegisterWritebackPipelineRegister EXCEPT
                        !.instruction = pipeline_register.instruction,
                        !.register_write_data = register_write_data,
                        !.write_register = pipeline_register.write_register,
                        !.memory_read_data = pipeline_register.memory_read_data,
                        !.result = pipeline_register.result,
                        !.control_unit_signals = pipeline_register.control_unit_signals,
                        !.pc_plus_instruction_length =
                            pipeline_register.pc_plus_instruction_length,
                        !.imm = pipeline_register.imm,
                        !.address_of_instruction =
                            pipeline_register.address_of_instruction],
                    write_back(pipeline_register.instruction,
                               pipeline_register.write_register,
                               register_write_data, s1),
                    NoError)

(***************************************************************************)
(* The engines.                                                            *)
(***************************************************************************)
\* InstructionExecutionException(address, instruction_repr, error_message).
NoException == [address |-> None, instruction_repr |-> << >>, error_message |-> NoError]
InstructionExecutionException(address, instruction_repr, error_message) ==
    [address |-> address, instruction_repr |-> instruction_repr,
     error_message |-> error_message]

\* SingleStage.behavior: the register it returns, the state it leaves and
\* the exception it raises.
SingleStageResult(register, state, exception) ==
    [register |-> register, state |-> state, exception |-> exception]
CountInstructionTwice(state) ==
    [state EXCEPT !.performance_metrics.instruction_count = @ + 2]
\* state.performance_metrics.instruction_count += 1
CountInstruction(state) ==
    [state EXCEPT !.performance_metrics.instruction_count = @ + 1]
SingleStageAdvanceOnError(state, instr) ==
    [state EXCEPT !.program_counter = Plus(@, PyInt(InstructionLength))]
SingleStageOnError(state, instr) == state
SingleStage(instructions, state) ==
    IF instruction_at_pc(instructions, state)
    THEN
        Bind(state.program_counter, LAMBDA pc_before_increment :
        Bind(read_instruction(instructions, state.program_counter), LAMBDA instr :
        Bind(behavior(instr, CountInstruction(state)), LAMBDA done :
            IF done.error = NoError
            THEN SingleStageResult(
                    [PipelineRegister EXCEPT
                        !.address_of_instruction = pc_before_increment],
                    [done.state EXCEPT
                        !.program_counter = Plus(@, PyInt(InstructionLength))],
                    NoException)
            ELSE SingleStageResult(
                    PipelineRegister,
                    SingleStageOnError(done.state, instr),
                    InstructionExecutionException(pc_before_increment, Repr(instr),
                                                  done.error)))))
    ELSE SingleStageResult(PipelineRegister, state, NoException)

\* The five-stage pipeline: stages IF, ID, EX, MEM, WB at indices 0 .. 4,
\* pipeline_registers[i] the output of stage i.
NumStages == 5
StageIndices == 0 .. (NumStages - 1)
EmptyPipeline == [i \in StageIndices |-> PipelineRegister]

FlushIndexFromFront(registers) ==
    IF \E i \in StageIndices : registers[i].flush_signal # None
    THEN CHOOSE i \in StageIndices :
            /\ registers[i].flush_signal # None
            /\ \A j \in StageIndices : registers[j].flush_signal # None => j >= i
    ELSE NoReg
\* The register whose flush signal is applied: of the registers that carry
\* one, the one of the instruction earliest in program order, which is the
\* one nearest to write-back (MEM before ID).
FlushIndex(registers) ==
    IF \E i \in StageIndices : registers[i].flush_signal # None
    THEN CHOOSE i \in StageIndices :
            /\ registers[i].flush_signal # None
            /\ \A j \in StageIndices : registers[j].flush_signal # None => j <= i
    ELSE NoReg

\* The number of registers a flush at index clears: index + int(inclusive).
NumToFlush(index, flush_signal) == index + (IF flush_signal[1] THEN 1 ELSE 0)

\* The flush protocol on the registers the stages produced.
ApplyFlush(registers, state) ==
    LET index == FlushIndex(registers)
    IN  IF index = NoReg
        THEN [pipeline_registers |-> registers, state |-> state]
        ELSE
            LET flush_signal == registers[index].flush_signal
                num_to_flush == NumToFlush(index, flush_signal)
            IN  [pipeline_registers |->
                    [i \in StageIndices |->
                        IF i < num_to_flush THEN PipelineRegister ELSE registers[i]],
                 state |-> [state EXCEPT !.program_counter = flush_signal[2]]]

EvaluateStagesDecodeFirst(instructions, detect_hazards, registers, state) ==
    Bind(InstructionDecodeStage(detect_hazards, registers, 0, state), LAMBDA id :
    Bind(RegisterWritebackStage(registers, 3, id.state), LAMBDA wb :
    Bind(MemoryAccessStage(registers, 2, wb.state), LAMBDA mem :
    Bind(ExecuteStage(registers, 1, mem.state), LAMBDA ex :
    Bind(InstructionFetchStage(instructions, registers, NoReg, ex.state), LAMBDA if :
        [pipeline_registers |->
            [i \in StageIndices |->
                CASE i = 0 -> if.register
                  [] i = 1 -> id.register
                  [] i = 2 -> ex.register
                  [] i = 3 -> mem.register
                  [] i = 4 -> wb.register],
         state |-> if.state,
         state_at_error |-> wb.state,
         error |-> mem.error])))))

\* The stages of one step in the order WB, MEM, EX, ID, IF, each on the
\* registers of the previous cycle: the registers they produce, the state
\* they leave, the state after WB alone and the error of a stage that raised.
EvaluateStages(instructions, detect_hazards, registers, state) ==
    Bind(RegisterWritebackStage(registers, 3, state), LAMBDA wb :
    Bind(MemoryAccessStage(registers, 2, wb.state), LAMBDA mem :
    Bind(ExecuteStage(registers, 1, mem.state), LAMBDA ex :
    Bind(InstructionDecodeStage(detect_hazards, registers, 0, ex.state), LAMBDA id :
    Bind(InstructionFetchStage(instructions, registers, NoReg, id.state), LAMBDA if :
        [pipeline_registers |->
            [i \in StageIndices |->
                CASE i = 0 -> if.register
                  [] i = 1 -> id.register
                  [] i = 2 -> ex.register
                  [] i = 3 -> mem.register
                  [] i = 4 -> wb.register],
         state |-> if.state,
         state_at_error |-> wb.state,
         error |-> mem.error])))))

\* Pipeline.step: the stages, then the flush.  A stage that raises ends the
\* step: the registers stay and the state keeps what the earlier stages of
\* this cycle did.
PipelineStepResult(registers, state, exception) ==
    [pipeline_registers |-> registers, state |-> state, exception |-> exception]
PipelineStep(instructions, detect_hazards, registers, state) ==
    Bind(EvaluateStages(instructions, detect_hazards, registers, state), LAMBDA evaluated :
        IF evaluated.error # NoError
        THEN PipelineStepResult(
                registers, evaluated.state_at_error,
                InstructionExecutionException(
                    registers[2].address_of_instruction,
                    Repr(registers[2].instruction), evaluated.error))
        ELSE Bind(ApplyFlush(evaluated.pipeline_registers, evaluated.state), LAMBDA flushed :
                PipelineStepResult(flushed.pipeline_registers, flushed.state,
                                   NoException)))

\* Pipeline.is_empty and is_done.
is_empty(pipeline_registers) ==
    \A i \in StageIndices : pipeline_registers[i].instruction = EmptyInstruction
is_done(instructions, pipeline_registers, state) ==
    ~instruction_at_pc(instructions, state) /\ is_empty(pipeline_registers)

(***************************************************************************)
(* The runs.  A program is loaded into the instruction memory at the       *)
(* addresses 0, 4, 8, ...; the single-cycle engine and the pipeline engine *)
(* each run it from the default-constructed state.                         *)
(***************************************************************************)
VARIABLES
    instruction_memory,     \* address -> instruction, the loaded program
    detect_data_hazards,    \* InstructionDecodeStage.detect_data_hazards
    single_state,           \* architectural state of the single-cycle engine
    single_register,        \* the register the last SingleStage.behavior returned
    single_exception,       \* the exception that ended the single-cycle run
    pipeline_state,         \* architectural state of the pipeline engine
    pipeline_registers,     \* Pipeline.pipeline_registers
    pipeline_exception,     \* the exception that ended the pipeline run
    next_pipeline_registers,\* what the stages of the last step produced, before the flush
    data_hazards,           \* steps in which ID signalled a data hazard
    cycles,                 \* steps of the pipeline engine so far
    storage,                \* a state whose memory and CSR file are accessed directly
    last_call,              \* the last direct access: its arguments and its outcome
    calls                   \* direct accesses so far

vars == <<instruction_memory, detect_data_hazards, single_state, single_register,
          single_exception, pipeline_state, pipeline_registers, pipeline_exception,
          next_pipeline_registers, data_hazards, cycles, storage, last_call, calls>>

\* No direct access was made yet.
NoCall == [op |-> "none", width |-> 0, address |-> None, value |-> None,
           error |-> NoError]
Call(op, width, address, value, error) ==
    [op |-> op, width |-> width, address |-> address, value |-> value, error |-> error]

\* The instructions the programs are built from.
InstructionPool ==
    << ITypeInstruction("addi", 1, 0, 5),
       RTypeInstruction("add", 2, 1, 1),
       ITypeInstruction("addi", 1, 0, 1),
       ITypeInstruction("addi", 2, 0, 2),
       BTypeInstruction("beq", 0, 0, 8),
       BTypeInstruction("bne", 0, 0, 8),
       JTypeInstruction("jal", 1, 12),
       ITypeInstruction("addi", 0, 0, 7),
       STypeInstruction("sw", 2, 2, 0) >>

\* InstructionMemory.append_instructions: the n-th instruction at 4 * (n - 1).
LoadProgram(program) ==
    [a \in {InstructionLength * (n - 1) : n \in 1 .. Len(program)} |->
        program[(a \div InstructionLength) + 1]]

ProgramsOver(pool, max_len) ==
    UNION {[1 .. n -> {pool[i] : i \in 1 .. Len(pool)}] : n \in 1 .. max_len}

\* Further programs: stores to and loads from legal addresses, without a
\* hazard, with hazards and behind a taken branch or jump; a load from an
\* illegal address; a write to a read-only CSR.
ScenarioPrograms ==
    { << UTypeInstruction("lui", 2, 4), ITypeInstruction("addi", 1, 0, 5),
         ITypeInstruction("addi", 0, 0, 7), STypeInstruction("sw", 2, 2, 0) >>,
      << UTypeInstruction("lui", 2, 4), BTypeInstruction("bne", 0, 0, 8),
         ITypeInstruction("addi", 1, 0, 5), STypeInstruction("sw", 2, 2, 0),
         ITypeInstruction("addi", 1, 0, 1) >>,
      << UTypeInstruction("lui", 2, 4), JTypeInstruction("jal", 1, 8),
         STypeInstruction("sw", 2, 2, 0), ITypeInstruction("addi", 0, 0, 7),
         STypeInstruction("sw", 2, 2, 0) >>,
      << UTypeInstruction("lui", 2, 4), STypeInstruction("sw", 2, 2, 0),
         ITypeInstruction("lw", 1, 2, 0), RTypeInstruction("add", 2, 1, 1) >>,
      << ITypeInstruction("lw", 1, 0, 0) >>,
      << ITypeInstruction("addi", 1, 0, 5), ITypeInstruction("lw", 1, 0, 0),
         ITypeInstruction("addi", 2, 0, 2) >>,
      << ITypeInstruction("addi", 1, 0, 5), CSRTypeInstruction("csrrw", 1, 3072, 0) >>,
      << BTypeInstruction("beq", 0, 0, 8), CSRTypeInstruction("csrrw", 1, 3072, 0),
         ITypeInstruction("addi", 1, 0, 5) >>,
      \* jalr with rd = rs1 and an odd sum; jalr whose sum passes 2^32, behind
      \* its producer and two instructions later; csrrw with rd = rs1 and
      \* with rd # rs1 on a writable CSR.
      << ITypeInstruction("addi", 1, 0, 5), ITypeInstruction("jalr", 1, 1, 8),
         ITypeInstruction("addi", 0, 0, 7), ITypeInstruction("addi", 2, 0, 2) >>,
      << ITypeInstruction("addi", 1, 0, 0 - 4), ITypeInstruction("jalr", 2, 1, 12),
         BTypeInstruction("beq", 0, 0, 8) >>,
      << ITypeInstruction("addi", 1, 0, 0 - 4), ITypeInstruction("addi", 0, 0, 7),
         ITypeInstruction("addi", 0, 0, 7), ITypeInstruction("jalr", 2, 1, 20),
         ITypeInstruction("addi", 2, 0, 2) >>,
      << ITypeInstruction("addi", 1, 0, 5), CSRTypeInstruction("csrrw", 1, 0, 1) >>,
      << ITypeInstruction("addi", 1, 0, 5), CSRTypeInstruction("csrrw", 2, 0, 1),
         CSRTypeInstruction("csrrw", 2, 0, 0) >>,
      \* the logic instructions, on registers and with an immediate; csrrs and
      \* csrrci on a writable CSR.
      << ITypeInstruction("xori", 1, 0, 6), ITypeInstruction("ori", 2, 1, 3),
         RTypeInstruction("xor", 1, 1, 2) >>,
      << ITypeInstruction("addi", 1, 0, 0 - 3), ITypeInstruction("andi", 2, 1, 12),
         RTypeInstruction("and", 1, 1, 2), RTypeInstruction("or", 2, 1, 2) >>,
      << ITypeInstruction("addi", 1, 0, 5), CSRTypeInstruction("csrrs", 2, 0, 1),
         CSRITypeInstruction("csrrci", 1, 0, 4) >> }

Init ==
    /\ instruction_memory \in
            {LoadProgram(program) :
                program \in ProgramsOver(InstructionPool, MaxProgLen) \cup ScenarioPrograms}
    /\ detect_data_hazards = TRUE
    /\ single_state = RiscvArchitecturalState
    /\ single_register = PipelineRegister
    /\ single_exception = NoException
    /\ pipeline_state = RiscvArchitecturalState
    /\ pipeline_registers = EmptyPipeline
    /\ pipeline_exception = NoException
    /\ next_pipeline_registers = EmptyPipeline
    /\ data_hazards = 0
    /\ cycles = 0
    /\ storage = RiscvArchitecturalState
    /\ last_call = NoCall
    /\ calls = 0

SingleDone == ~instruction_at_pc(instruction_memory, single_state)
PipelineDone == is_done(instruction_memory, pipeline_registers, pipeline_state)

\* The single-cycle run is over: a step raised, or a step found no
\* instruction at the program counter.
SingleRunOver ==
    \/ single_exception # NoException
    \/ SingleDone /\ single_register = PipelineRegister

\* One call of SingleStage.behavior.  A run ends with the first exception.
SingleStep ==
    /\ single_exception = NoException
    /\ single_state.performance_metrics.instruction_count < MaxCycles
    /\ \E r \in {SingleStage(instruction_memory, single_state)} :
           /\ single_state' = r.state
           /\ single_register' = r.register
           /\ single_exception' = r.exception
    /\ UNCHANGED <<instruction_memory, detect_data_hazards, pipeline_state,
                   pipeline_registers, pipeline_exception, next_pipeline_registers,
                   data_hazards, cycles, storage, last_call, calls>>

\* One step of the pipeline engine, taken while the pipeline is not done.
\* The pipeline run starts when the single-cycle run is over.
PipelineCycle ==
    /\ SingleRunOver
    /\ pipeline_exception = NoException
    /\ ~PipelineDone
    /\ cycles < MaxCycles
    /\ \E evaluated \in {EvaluateStages(instruction_memory, detect_data_hazards,
                                       pipeline_registers, pipeline_state)},
           r \in {PipelineStep(instruction_memory, detect_data_hazards,
                             pipeline_registers, pipeline_state)} :
           /\ pipeline_state' = r.state
           /\ pipeline_registers' = r.pipeline_registers
           /\ pipeline_exception' = r.exception
           /\ next_pipeline_registers' =
                IF r.exception = NoException THEN evaluated.pipeline_registers
                ELSE next_pipeline_registers
           /\ data_hazards' =
                IF r.exception = NoException
                   /\ evaluated.pipeline_registers[1].flush_signal # None
                THEN data_hazards + 1 ELSE data_hazards
           /\ cycles' = IF r.exception = NoException THEN cycles + 1 ELSE cycles
    /\ UNCHANGED <<instruction_memory, detect_data_hazards, single_state,
                   single_register, single_exception, storage, last_call, calls>>

Next == SingleStep \/ PipelineCycle

Spec == Init /\ [][Next]_vars

(***************************************************************************)
(* Direct accesses of the data memory and of the CSR file, as the tests    *)
(* and the instructions make them: no program runs.                        *)
(***************************************************************************)
\* Sequences of at most MaxStores stores and of at most MaxCsrCalls CSR calls.
MaxStores == 3
MaxCsrCalls == 2

Widths == {1, 2, 4}
\* Addresses next to each other, at the end of an 8-bit and of a 32-bit
\* address space.
MemoryAddresses == {PyInt(0), PyInt(1), PyInt(255), MaxUInt32}
\* Values of each width, as integers.
ValuesOfWidth(width) ==
    CASE width = 1 -> {PyInt(171)}
      [] width = 2 -> {PyInt(4660)}
      [] width = 4 -> {<<57005, 48879>>, PyInt(1)}
AddressLengths == {DefaultAddressLength, 8}

\* Memory.load_* and store_* by width; a byte is handed on as an integer.
load(width, mem, address) ==
    CASE width = 1 -> PyInt(load_byte(mem, address))
      [] width = 2 -> load_halfword(mem, address)
      [] width = 4 -> load_word(mem, address)
store(width, mem, address, value) ==
    CASE width = 1 -> store_byte(mem, address, value[2])
      [] width = 2 -> store_halfword(mem, address, value)
      [] width = 4 -> store_word(mem, address, value)

\* CsrRegisterFile.load_* and store_* by width.
csr_load(width, csr, address) ==
    CASE width = 1 ->
            Bind(csr_load_byte(csr, address), LAMBDA r :
                [value |-> IF r.error = NoError THEN PyInt(r.value) ELSE None,
                 error |-> r.error])
      [] width = 2 -> csr_load_halfword(csr, address)
      [] width = 4 -> csr_load_word(csr, address)
csr_store(width, csr, address, value) ==
    CASE width = 1 -> csr_store_byte(csr, address, value[2])
      [] width = 2 -> csr_store_halfword(csr, address, value)
      [] width = 4 -> csr_store_word(csr, address, value)

EnginesIdle ==
    UNCHANGED <<instruction_memory, detect_data_hazards, single_state, single_register,
                single_exception, pipeline_state, pipeline_registers,
                pipeline_exception, next_pipeline_registers, data_hazards, cycles>>

\* The engines hold no program; the state under access is the default one,
\* its memory of one of the address widths.
StorageInit ==
    /\ instruction_memory = LoadProgram(<< >>)
    /\ detect_data_hazards = TRUE
    /\ single_state = RiscvArchitecturalState
    /\ single_register = PipelineRegister
    /\ single_exception = NoException
    /\ pipeline_state = RiscvArchitecturalState
    /\ pipeline_registers = EmptyPipeline
    /\ pipeline_exception = NoException
    /\ next_pipeline_registers = EmptyPipeline
    /\ data_hazards = 0
    /\ cycles = 0
    /\ \E address_length \in AddressLengths :
            storage = [RiscvArchitecturalState EXCEPT
                            !.memory = Memory(address_length, DefaultMinBytes)]
    /\ last_call = NoCall
    /\ calls = 0

\* memory.store_byte / store_halfword / store_word(address, value).
MemoryStore ==
    /\ calls < MaxStores
    /\ \E width \in Widths, address \in MemoryAddresses :
         \E value \in ValuesOfWidth(width) :
            /\ storage' = [storage EXCEPT !.memory = store(width, @, address, value)]
            /\ last_call' = Call("store", width, address, value, NoError)
    /\ calls' = calls + 1
    /\ EnginesIdle

\* memory.load_byte / load_halfword / load_word(address).  A load is not
\* counted: it leaves the memory as it is.
MemoryLoad ==
    /\ \E width \in Widths, address \in MemoryAddresses :
            last_call' = Call("load", width, address,
                              load(width, storage.memory, address), NoError)
    /\ UNCHANGED <<storage, calls>>
    /\ EnginesIdle

MemoryNext == MemoryStore \/ MemoryLoad

MemorySpec == StorageInit /\ [][MemoryNext]_vars

\* CSR addresses: with the privilege bits 00, 01 and 11, with none, one
\* and both of the bits 11 and 10, and outside 0 .. 4095.
CsrAddresses == {0, 256, 768, 1024, 2048, 3072, 3328, 4096}
PrivilegeLevels == (0 - 1) .. 4

\* csr_registers.store_byte / store_halfword / store_word(address, value).
CsrStore ==
    /\ calls < MaxCsrCalls
    /\ \E width \in Widths, address \in CsrAddresses :
         \E value \in ValuesOfWidth(width) \ {PyInt(1)} :
          \E r \in {csr_store(width, storage.csr_registers, address, value)} :
            /\ storage' = [storage EXCEPT !.csr_registers = r.csr]
            /\ last_call' = Call("csr_store", width, address, value, r.error)
    /\ calls' = calls + 1
    /\ EnginesIdle

\* csr_registers.load_byte / load_halfword / load_word(address).
CsrLoad ==
    /\ calls < MaxCsrCalls
    /\ \E width \in Widths, address \in CsrAddresses :
          \E r \in {csr_load(width, storage.csr_registers, address)} :
            last_call' = Call("csr_load", width, address, r.value, r.error)
    /\ calls' = calls + 1
    /\ UNCHANGED storage
    /\ EnginesIdle

\* state.change_privilege_level(level).
ChangePrivilegeLevel ==
    /\ calls < MaxCsrCalls
    /\ \E level \in PrivilegeLevels :
            /\ storage' = change_privilege_level(storage, level)
            /\ last_call' = Call("change_privilege_level", 0, NoReg, PyInt(level),
                                  NoError)
    /\ calls' = calls + 1
    /\ EnginesIdle

CsrNext == CsrStore \/ CsrLoad \/ ChangePrivilegeLevel

CsrSpec == StorageInit /\ [][CsrNext]_vars

MaxRegisterWrites == 2
\* Register indices: x0, the first and the last register, and past the end.
RegisterIndices == {0, 1, 2, 31, 32, 33}
RegisterValues == {PyInt(5), <<32768, 0>>, MaxUInt32}

\* state.register_file.registers[index] = value.
RegisterWrite ==
    /\ calls < MaxRegisterWrites
    /\ \E index \in RegisterIndices, value \in RegisterValues :
            /\ storage' = [storage EXCEPT !.register_file.registers =
                                RegistersSetItem(@, index, value)]
            /\ last_call' = Call("register_write", 0, index, value, NoError)
    /\ calls' = calls + 1
    /\ EnginesIdle

RegisterNext == RegisterWrite

RegisterSpec == StorageInit /\ [][RegisterNext]_vars

(***************************************************************************)
(* The toy architecture: a 16-bit accumulator machine.  An instruction is  *)
(* a record of its mnemonic, opcode and address (NoAddress for a class     *)
(* without an address).                                                    *)
(***************************************************************************)
NoAddress == 0 - 1

\* fixedint.MutableUInt16(n): n mod 2^16.
MutableUInt16NoWrap(n) == n
MutableUInt16(n) == n % Half

\* str.upper() on a mnemonic: every spelling of a Toy mnemonic in mixed case
\* gives the mnemonic in capitals, which upper() leaves as it is.  (A string
\* is atomic here, so the conversion is the table of these spellings; any
\* other string is taken to be in capitals already.)
upper(mnemonic) ==
    CASE mnemonic \in {"STo", "StO", "Sto", "sTO", "sTo", "stO", "sto"} -> "STO"
      [] mnemonic \in {"LDa", "LdA", "Lda", "lDA", "lDa", "ldA", "lda"} -> "LDA"
      [] mnemonic \in {"BRz", "BrZ", "Brz", "bRZ", "bRz", "brZ", "brz"} -> "BRZ"
      [] mnemonic \in {"ADd", "AdD", "Add", "aDD", "aDd", "adD", "add"} -> "ADD"
      [] mnemonic \in {"SUb", "SuB", "Sub", "sUB", "sUb", "suB", "sub"} -> "SUB"
      [] mnemonic \in {"Or", "oR", "or"} -> "OR"
      [] mnemonic \in {"ANd", "AnD", "And", "aND", "aNd", "anD", "and"} -> "AND"
      [] mnemonic \in {"XOr", "XoR", "Xor", "xOR", "xOr", "xoR", "xor"} -> "XOR"
      [] mnemonic \in {"NOt", "NoT", "Not", "nOT", "nOt", "noT", "not"} -> "NOT"
      [] mnemonic \in {"INc", "InC", "Inc", "iNC", "iNc", "inC", "inc"} -> "INC"
      [] mnemonic \in {"DEc", "DeC", "Dec", "dEC", "dEc", "deC", "dec"} -> "DEC"
      [] mnemonic \in {"ZRo", "ZrO", "Zro", "zRO", "zRo", "zrO", "zro"} -> "ZRO"
      [] mnemonic \in {"NOp", "NoP", "Nop", "nOP", "nOp", "noP", "nop"} -> "NOP"
      [] OTHER -> mnemonic

\* ToyInstruction(mnemonic=..., opcode=...): the mnemonic in capitals, the
\* opcode modulo 16.
ToyInstruction(mnemonic, opcode) ==
    [mnemonic |-> upper(mnemonic), opcode |-> opcode % 16, address |-> NoAddress]
\* AddressTypeInstruction(address, mnemonic=..., opcode=...).
AddressTypeInstruction(mnemonic, opcode, address) ==
    [ToyInstruction(mnemonic, opcode) EXCEPT !.address = address % 4096]

AddressMnemonics == {"STO", "LDA", "BRZ", "ADD", "SUB", "OR", "AND", "XOR"}
NoAddressMnemonics == {"NOT", "INC", "DEC", "ZRO", "NOP"}
\* instruction_map[mnemonic](address): the object the class of the mnemonic
\* constructs; a class without an address takes none.
instruction_map(mnemonic, address) ==
    CASE mnemonic = "STO" -> AddressTypeInstruction("STO", 0, address)
      [] mnemonic = "LDA" -> AddressTypeInstruction("LDA", 1, address)
      [] mnemonic = "BRZ" -> AddressTypeInstruction("BRZ", 2, address)
      [] mnemonic = "ADD" -> AddressTypeInstruction("ADD", 3, address)
      [] mnemonic = "SUB" -> AddressTypeInstruction("SUB", 4, address)
      [] mnemonic = "OR" -> AddressTypeInstruction("OR", 5, address)
      [] mnemonic = "AND" -> AddressTypeInstruction("AND", 6, address)
      [] mnemonic = "XOR" -> AddressTypeInstruction("XOR", 7, address)
      [] mnemonic = "NOT" -> ToyInstruction("NOT", 8)
      [] mnemonic = "INC" -> ToyInstruction("INC", 9)
      [] mnemonic = "DEC" -> ToyInstruction("DEC", 10)
      [] mnemonic = "ZRO" -> ToyInstruction("ZRO", 11)
      [] mnemonic = "NOP" -> ToyInstruction("NOP", 12)
Toy(mnemonic) == instruction_map(mnemonic, NoAddress)

IsAddressType(instr) == instr.mnemonic \in AddressMnemonics

\* a == b of two instructions: the opcodes, and for two instructions with an
\* address the addresses as well.
ToyEq(a, b) ==
    IF IsAddressType(a)
    THEN IsAddressType(b) /\ a.opcode = b.opcode /\ a.address = b.address
    ELSE a.opcode = b.opcode

\* to_integer(): opcode << 12, plus the address of an instruction with one.
to_integerOpcodeOnly(instr) == instr.opcode * 4096
to_integer(instr) ==
    IF IsAddressType(instr)
    THEN (instr.opcode * 4096) + instr.address
    ELSE instr.opcode * 4096

from_integer(integer_instruction) ==
    LET opcode == (integer_instruction \div 4096) % 16
        address == integer_instruction % 4096
    IN  CASE opcode = 0 -> instruction_map("STO", address)
          [] opcode = 1 -> instruction_map("LDA", address)
          [] opcode = 2 -> instruction_map("BRZ", address)
          [] opcode = 3 -> instruction_map("ADD", address)
          [] opcode = 4 -> instruction_map("SUB", address)
          [] opcode = 5 -> instruction_map("OR", address)
          [] opcode = 6 -> instruction_map("AND", address)
          [] opcode = 7 -> instruction_map("XOR", address)
          [] opcode = 8 -> Toy("NOT")
          [] opcode = 9 -> Toy("INC")
          [] opcode = 10 -> Toy("DEC")
          [] opcode = 11 -> Toy("ZRO")
          [] OTHER -> Toy("NOP")

\* ToyArchitecturalState(): PC and accumulator 0, empty memories.  The data
\* memory maps a halfword address to the halfword written there.
ToyArchitecturalState ==
    [program_counter |-> 0, accu |-> 0, data_memory |-> << >>,
     instruction_memory |-> << >>,
     performance_metrics |-> [instruction_count |-> 0, cycles |-> 0,
                              branch_count |-> 0]]

increment_pc(state) ==
    [state EXCEPT !.program_counter = MutableUInt16(@ + 1)]
set_pc(state, value) == [state EXCEPT !.program_counter = value]
read_toy_halfword(state, address) == FileGet(state.data_memory, address)
write_toy_halfword(state, address, value) ==
    [state EXCEPT !.data_memory = FilePut(@, address, MutableUInt16(value))]

\* BRZ.behavior: PC = address if the accumulator is 0.
BrzBehaviorBranchOnNonZero(instr, state) ==
    IF state.accu = 0
    THEN increment_pc(state)
    ELSE [set_pc(state, MutableUInt16(instr.address)) EXCEPT
            !.performance_metrics.branch_count = @ + 1]
BrzBehaviorNeverTaken(instr, state) == increment_pc(state)
BrzBehavior(instr, state) ==
    IF state.accu # 0
    THEN increment_pc(state)
    ELSE [set_pc(state, MutableUInt16(instr.address)) EXCEPT
            !.performance_metrics.branch_count = @ + 1]

\* behavior(state) of each class.
ToyBehavior(instr, state) ==
    LET m == instr.mnemonic
        memory == read_toy_halfword(state, instr.address)
        accu(value) == increment_pc([state EXCEPT !.accu = value])
    IN  CASE m = "STO" ->
                increment_pc(write_toy_halfword(state, instr.address, state.accu))
          [] m = "LDA" -> accu(memory)
          [] m = "BRZ" -> BrzBehavior(instr, state)
          [] m = "ADD" -> accu(MutableUInt16(state.accu + memory))
          [] m = "SUB" -> accu(MutableUInt16(state.accu - memory))
          [] m = "OR" -> accu(Bitwise(BitOr, state.accu, memory, 16))
          [] m = "AND" -> accu(Bitwise(BitAnd, state.accu, memory, 16))
          [] m = "XOR" -> accu(Bitwise(BitXor, state.accu, memory, 16))
          [] m = "NOT" -> accu(MutableUInt16((0 - state.accu) - 1))
          [] m = "INC" -> accu(MutableUInt16(state.accu + 1))
          [] m = "DEC" -> accu(MutableUInt16(state.accu - 1))
          [] m = "ZRO" -> accu(MutableUInt16(0))
          [] m = "NOP" -> increment_pc(state)

\* The engine: the instruction at address a is instruction_memory[a + 1].
toy_is_done(state) == state.program_counter >= Len(state.instruction_memory)
toy_stepCountingCyclesOnly(state) ==
    LET instr == state.instruction_memory[state.program_counter + 1]
    IN  [ToyBehavior(instr, state) EXCEPT !.performance_metrics.cycles = @ + 1]
toy_step(state) ==
    LET instr == state.instruction_memory[state.program_counter + 1]
    IN  [ToyBehavior(instr, state) EXCEPT
            !.performance_metrics.instruction_count = @ + 1,
            !.performance_metrics.cycles = @ + 1]

MaxToySteps == 3300
LoopCount == 1024
Result == 1025
\* The program of the sum of 1 .. n, n at LoopCount.
SumProgram ==
    << instruction_map("LDA", Result), instruction_map("ADD", LoopCount),
       instruction_map("STO", Result), instruction_map("LDA", LoopCount),
       Toy("DEC"), instruction_map("STO", LoopCount), instruction_map("BRZ", 9),
       Toy("ZRO"), instruction_map("BRZ", 0) >>
SumInputs == {1, 2, 20, 362}
\* The program of seven instructions in a row.
StraightProgram ==
    << Toy("INC"), Toy("INC"), instruction_map("STO", 1024),
       instruction_map("ADD", 1024), instruction_map("STO", 1025), Toy("INC"),
       instruction_map("LDA", 4095) >>
\* A program with three taken and one not taken branch.
MetricsProgram ==
    << Toy("INC"), Toy("INC"), Toy("INC"), Toy("INC"), Toy("DEC"),
       instruction_map("BRZ", 8), Toy("ZRO"), instruction_map("BRZ", 3),
       instruction_map("BRZ", 9), instruction_map("ADD", 1024) >>
ToyScenarioPrograms ==
    { StraightProgram, MetricsProgram,
      << Toy("DEC"), instruction_map("STO", 1024), instruction_map("ADD", 1024),
         Toy("NOT"), instruction_map("BRZ", 0) >>,
      << Toy("INC"), instruction_map("STO", 1024), Toy("ZRO"),
         instruction_map("SUB", 1024), instruction_map("XOR", 1024),
         instruction_map("OR", 1024), instruction_map("AND", 1024), Toy("NOP") >>,
      << instruction_map("BRZ", 4095), Toy("INC") >>,
      << Toy("ZRO"), instruction_map("BRZ", 0) >> }
ToyPool ==
    << Toy("INC"), Toy("DEC"), Toy("NOT"), instruction_map("STO", 1024),
       instruction_map("ADD", 1024), instruction_map("SUB", 1024),
       instruction_map("BRZ", 2) >>
MaxToyProgLen == 2

\* The engines of the RISC-V machine hold no program.
EnginesEmpty ==
    /\ instruction_memory = LoadProgram(<< >>)
    /\ detect_data_hazards = TRUE
    /\ single_state = RiscvArchitecturalState
    /\ single_register = PipelineRegister
    /\ single_exception = NoException
    /\ pipeline_state = RiscvArchitecturalState
    /\ pipeline_registers = EmptyPipeline
    /\ pipeline_exception = NoException
    /\ next_pipeline_registers = EmptyPipeline
    /\ data_hazards = 0
    /\ cycles = 0

\* ToySimulation() with a program loaded; the sum program has its n in the
\* data memory.
ToyInit ==
    /\ EnginesEmpty
    /\ storage \in
            {[ToyArchitecturalState EXCEPT !.instruction_memory = program] :
                program \in ProgramsOver(ToyPool, MaxToyProgLen) \cup ToyScenarioPrograms}
            \cup
            {[ToyArchitecturalState EXCEPT
                    !.instruction_memory = SumProgram,
                    !.data_memory = FilePut(<< >>, LoopCount, n)] : n \in SumInputs}
    /\ last_call = NoCall
    /\ calls = 0

\* simulation.step(): the instruction at the PC is executed and counted.
ToyStep ==
    /\ calls < MaxToySteps
    /\ ~toy_is_done(storage)
    /\ storage' = toy_step(storage)
    /\ last_call' = Call("step", 0, storage.program_counter,
                         storage.instruction_memory[storage.program_counter + 1],
                         NoError)
    /\ calls' = calls + 1
    /\ EnginesIdle

ToyNext == ToyStep

ToySpec == ToyInit /\ [][ToyNext]_vars

\* The run of the engine until it is done: run() steps while not is_done().
ToyFairSpec == ToySpec /\ WF_vars(ToyStep)

AllMnemonics == AddressMnemonics \cup NoAddressMnemonics
ToyAddresses == 0 .. 4095
ToyWords == 0 .. 65535

ToyCodecInit ==
    /\ EnginesEmpty
    /\ storage = ToyArchitecturalState
    /\ last_call = NoCall
    /\ calls = 0

\* instruction.to_integer(), and from_integer of the result.
ToyEncode ==
    /\ last_call.op = "none"
    /\ \E mnemonic \in AllMnemonics, address \in ToyAddresses :
         \E instr \in {instruction_map(mnemonic, address)} :
          \E word \in {to_integer(instr)} :
            last_call' = Call("to_integer", 0, word,
                              [instruction |-> instr, decoded |-> from_integer(word)],
                              NoError)
    /\ UNCHANGED <<storage, calls>>
    /\ EnginesIdle

\* ToyInstruction.from_integer(word).
ToyDecode ==
    /\ last_call.op = "none"
    /\ \E word \in ToyWords :
            last_call' = Call("from_integer", 0, word,
                              [instruction |-> from_integer(word),
                               decoded |-> from_integer(word)], NoError)
    /\ UNCHANGED <<storage, calls>>
    /\ EnginesIdle

ToyCodecNext == ToyEncode \/ ToyDecode

ToyCodecSpec == ToyCodecInit /\ [][ToyCodecNext]_vars

(***************************************************************************)
(* One instruction executed on a state: behavior(state), and alu_compute   *)
(* on the operands the EX stage hands to it.                               *)
(***************************************************************************)
\* Values of rs1, and values of rs2 among them pairs that agree modulo 32.
IsaOperands == {PyInt(1), <<32768, 1>>, MaxUInt32, <<4660, 22136>>}
IsaAmounts == {PyInt(0), PyInt(1), PyInt(33), PyInt(31), PyInt(63), MaxUInt32, <<32768, 0>>}
ShiftImmediates == {0, 1, 31, 32, 33, 63}
AddImmediates == {1, 2047, 2048, 4095}
ImmediatePatterns == 0 .. 4095
ShiftMnemonics == {"sll", "srl", "sra"} \cup ShiftITypeMnemonics
UnimplementedMnemonics == {"ecall", "ebreak", "fence"}

\* The arguments an instruction is constructed from, as written.
IsaArguments ==
    {Instr(m, rd, 1, 2, 0, 0) : m \in {"sll", "srl", "sra", "add", "sub"}, rd \in {1, 3}}
    \cup {Instr(m, 3, 1, NoReg, imm, 0) : m \in ShiftITypeMnemonics, imm \in ShiftImmediates}
    \cup {Instr("addi", 3, 1, NoReg, imm, 0) : imm \in AddImmediates}
    \cup {Instr("addi", 3, 0, NoReg, imm, 0) : imm \in ImmediatePatterns}
    \cup {Instr(m, 0, 0, NoReg, 0, 0) : m \in {"ecall", "ebreak"}}
    \cup {Instr("fence", NoReg, NoReg, NoReg, 0, 0)}
\* The constructor of the class of the mnemonic, applied to the arguments.
Construct(arguments) ==
    LET m == arguments.mnemonic
    IN  CASE m \in RTypeMnemonics ->
                RTypeInstruction(m, arguments.rd, arguments.rs1, arguments.rs2)
          [] m \in ShiftITypeMnemonics ->
                ShiftITypeInstruction(m, arguments.rd, arguments.rs1, arguments.imm)
          [] m \in ITypeMnemonics ->
                ITypeInstruction(m, arguments.rd, arguments.rs1, arguments.imm)
          [] m = "fence" -> FenceTypeInstruction(m)

\* The result of the ALU for the instruction decoded in the state.
AluOf(instr, state) ==
    LET signals == control_unit_signals(instr)
        access == access_register_file(instr, state)
        alu_in_1 == IF signals.alu_src_1 THEN access.register_read_data_1
                    ELSE state.program_counter
        alu_in_2 == IF signals.alu_src_2 THEN access.imm
                    ELSE access.register_read_data_2
    IN  alu_compute(instr, alu_in_1, alu_in_2).result

\* A state after earlier instructions: x1 and x2 hold operands, the PC is
\* at the third instruction and the memory holds a byte.
IsaInit ==
    /\ EnginesEmpty
    /\ \E a \in IsaOperands, b \in IsaAmounts :
            storage =
                [SetReg(SetReg(RiscvArchitecturalState, 1, a), 2, b) EXCEPT
                    !.program_counter = PyInt(2 * InstructionLength),
                    !.memory = store_byte(@, DefaultMinBytes, 171)]
    /\ last_call = NoCall
    /\ calls = 0

\* instruction.behavior(state) of a constructed instruction.
Execute ==
    /\ last_call.op = "none"
    /\ \E arguments \in IsaArguments :
         \E instr \in {Construct(arguments)} :
          \E r \in {behavior(instr, storage)} :
            /\ storage' = r.state
            /\ last_call' = Call("behavior", 0, NoReg,
                                 [arguments |-> arguments, instruction |-> instr,
                                  alu |-> AluOf(instr, storage)],
                                 r.error)
    /\ UNCHANGED calls
    /\ EnginesIdle

IsaNext == Execute

IsaSpec == IsaInit /\ [][IsaNext]_vars

(***************************************************************************)
(* The register file.                                                      *)
(***************************************************************************)
\* C7: with the default-constructed register file, register 0 reads 0 in
\* every reachable state of both engines, also after an executed
\* instruction whose rd is 0.
RegisterZeroIsZero ==
    /\ Reg(single_state, 0) = PyInt(0)
    /\ Reg(pipeline_state, 0) = PyInt(0)

\* Both engines have executed addi x0, x0, 7: the single-cycle engine has
\* counted it and the pipeline has written its result 7 back.
WitnessRegisterZero ==
    /\ instruction_memory[0] = ITypeInstruction("addi", 0, 0, 7)
    /\ single_state.performance_metrics.instruction_count >= 1
    /\ pipeline_registers[4].instruction = ITypeInstruction("addi", 0, 0, 7)
    /\ pipeline_registers[4].write_register = 0
    /\ pipeline_registers[4].register_write_data = PyInt(7)

(***************************************************************************)
(* The single-cycle engine.                                                *)
(***************************************************************************)
SingleInstruction == read_instruction(instruction_memory, single_state.program_counter)

\* The instruction at the program counter of the single-cycle engine is a
\* jump or a branch whose condition holds.
SingleTransfersControl ==
    LET instr == SingleInstruction
    IN  \/ instr.mnemonic \in JTypeMnemonics \cup {"jalr"}
        \/ /\ instr.mnemonic \in BTypeMnemonics
           /\ BranchCondition(instr.mnemonic, Reg(single_state, instr.rs1),
                              Reg(single_state, instr.rs2))

\* C8: a single-cycle step that finds an instruction at the program counter
\* executes that instruction, increments instruction_count by exactly 1 and,
\* unless it is a taken branch or a jump, leaves the program counter at the
\* old one plus 4; a step that finds no instruction changes nothing of the
\* state and returns a register that names no instruction.
SingleStepSemantics ==
    [][SingleStep =>
        IF instruction_at_pc(instruction_memory, single_state)
        THEN /\ single_state'.performance_metrics.instruction_count =
                    single_state.performance_metrics.instruction_count + 1
             /\ single_exception' = NoException =>
                    /\ single_register'.address_of_instruction =
                            single_state.program_counter
                    /\ single_state' =
                            [behavior(SingleInstruction, CountInstruction(single_state)).state
                                EXCEPT !.program_counter = Plus(@, PyInt(InstructionLength))]
                    /\ ~SingleTransfersControl =>
                            single_state'.program_counter =
                                Plus(single_state.program_counter, PyInt(InstructionLength))
        ELSE /\ single_state' = single_state
             /\ single_exception' = NoException
             /\ single_register' = PipelineRegister]_vars

\* The single-cycle engine executed three instructions, the second a branch
\* that was not taken, ran off the program and took a step that found no
\* instruction.
WitnessSingleStep ==
    /\ DOMAIN instruction_memory = {0, 4, 8}
    /\ instruction_memory[4] = BTypeInstruction("bne", 0, 0, 8)
    /\ single_state.performance_metrics.instruction_count = 3
    /\ single_state.program_counter = PyInt(12)
    /\ single_register = PipelineRegister
    /\ single_exception = NoException

\* C9: when the behavior of an instruction raises in the single-cycle
\* engine, the step fails with InstructionExecutionException whose address is
\* the program counter at the start of the step and whose text is that of
\* the instruction; the program counter stays at that address, and the
\* state keeps what the instruction did before it failed.
SingleStepFailure ==
    [][(SingleStep /\ single_exception' # NoException) =>
        /\ instruction_at_pc(instruction_memory, single_state)
        /\ single_exception'.address = single_state.program_counter
        /\ single_exception'.instruction_repr = Repr(SingleInstruction)
        /\ single_exception'.error_message # NoError
        /\ single_state'.program_counter = single_state.program_counter
        /\ single_state' =
                behavior(SingleInstruction, CountInstruction(single_state)).state
        /\ (SingleInstruction.mnemonic = "csrrw" /\ SingleInstruction.rd # 0) =>
                Reg(single_state', SingleInstruction.rd) = PyInt(0)]_vars

\* addi x1, x0, 5 ran, then csrrw x1, 0xC00, x0 failed on the read-only CSR
\* after it had overwritten x1 with the CSR's value 0.
WitnessSingleStepFailure ==
    /\ instruction_memory[0] = ITypeInstruction("addi", 1, 0, 5)
    /\ 4 \in DOMAIN instruction_memory
    /\ instruction_memory[4] = CSRTypeInstruction("csrrw", 1, 3072, 0)
    /\ single_exception # NoException
    /\ single_exception.address = PyInt(4)
    /\ single_state.program_counter = PyInt(4)
    /\ Reg(single_state, 1) = PyInt(0)
    /\ single_state.performance_metrics.instruction_count = 2

(***************************************************************************)
(* The range check of the data memory.                                     *)
(***************************************************************************)
\* The program that was loaded.
ProgramIs(program) == instruction_memory = LoadProgram(program)

\* The address a load or store of the single-cycle engine accesses: a store
\* wraps the sum to 32 bits, a load does not, and lbu and lhu take rs1 as a
\* signed value.
AccessAddress(instr, state) ==
    CASE instr.mnemonic \in STypeMnemonics ->
            UInt32(Plus(Reg(state, instr.rs1), UInt32(PyInt(instr.imm))))
      [] instr.mnemonic \in {"lbu", "lhu"} ->
            Plus(Int32(Reg(state, instr.rs1)), PyInt(instr.imm))
      [] OTHER -> Plus(Reg(state, instr.rs1), PyInt(instr.imm))

\* The instructions that read or write the data memory.
MemoryMnemonics == MemoryITypeMnemonics \cup STypeMnemonics

OutOfRange(mem, address) ==
    Less(address, mem.min_bytes) \/ Less(MaxAddress(mem), address)

\* C10: every read or write of the data memory (lb, lh, lw, lbu, lhu, sb,
\* sh, sw) at an address below min_bytes or above 2^W - 1 fails with
\* MemoryAddressError that carries the address and the legal bounds, and
\* leaves the memory unchanged, in the single-cycle engine and in the MEM
\* stage of the pipeline; with the default state, lw x1, 0(x0) fails with
\* address 0, minimum 2^14 and maximum 2^32 - 1.
MemoryRangeCheck ==
    [][/\ (/\ SingleStep
           /\ instruction_at_pc(instruction_memory, single_state)
           /\ SingleInstruction.mnemonic \in MemoryMnemonics
           /\ OutOfRange(single_state.memory,
                         AccessAddress(SingleInstruction, single_state)))
          => /\ single_exception'.error_message =
                    MemoryAddressError(AccessAddress(SingleInstruction, single_state),
                                       single_state.memory.min_bytes,
                                       MaxAddress(single_state.memory))
             /\ single_state'.memory = single_state.memory
       /\ (/\ PipelineCycle
           /\ pipeline_registers[2].instruction.mnemonic \in MemoryMnemonics
           /\ OutOfRange(pipeline_state.memory, pipeline_registers[2].result))
          => /\ pipeline_exception'.error_message =
                    MemoryAddressError(pipeline_registers[2].result,
                                       pipeline_state.memory.min_bytes,
                                       MaxAddress(pipeline_state.memory))
             /\ pipeline_state'.memory = pipeline_state.memory
       /\ (/\ SingleStep
           /\ instruction_at_pc(instruction_memory, single_state)
           /\ single_state.memory = RiscvArchitecturalState.memory
           /\ SingleInstruction = ITypeInstruction("lw", 1, 0, 0))
          => single_exception'.error_message =
                MemoryAddressError(PyInt(0), PyInt(2 ^ 14), <<2 ^ 16 - 1, 2 ^ 16 - 1>>)
      ]_vars

\* addi x1,x0,-4; lw x2,8(x1) has failed in both engines at the address
\* 2^32 + 4, above 2^32 - 1, and no byte was written.
WitnessMemoryRangeCheck ==
    /\ ProgramIs(<< ITypeInstruction("addi", 1, 0, 0 - 4),
                    ITypeInstruction("lw", 2, 1, 8) >>)
    /\ single_state.memory = RiscvArchitecturalState.memory
    /\ single_exception.address = PyInt(4)
    /\ single_exception.error_message =
            MemoryAddressError(<<Half, 4>>, PyInt(2 ^ 14), MaxUInt32)
    /\ pipeline_exception.address = PyInt(4)
    /\ pipeline_exception.error_message =
            MemoryAddressError(<<Half, 4>>, PyInt(2 ^ 14), MaxUInt32)
    /\ pipeline_state.memory = single_state.memory
    /\ Reg(pipeline_state, 2) = PyInt(0)

(***************************************************************************)
(* The pipeline engine against the single-cycle engine.                    *)
(***************************************************************************)
\* Both runs have ended without an exception: the single-cycle engine has
\* run off the program and the pipeline is done.
Completed ==
    /\ SingleDone
    /\ single_exception = NoException
    /\ PipelineDone
    /\ pipeline_exception = NoException

NoCsrInstructions ==
    \A a \in DOMAIN instruction_memory :
        instruction_memory[a].mnemonic \notin CSRTypeMnemonics \cup CSRITypeMnemonics

SameResults ==
    /\ pipeline_state.register_file = single_state.register_file
    /\ pipeline_state.memory = single_state.memory
    /\ pipeline_state.performance_metrics.instruction_count =
            single_state.performance_metrics.instruction_count

\* C1: a program without CSR instructions that runs to completion with no
\* data hazard leaves, on the pipeline engine and on the single-cycle
\* engine, the same register file, the same data memory and the same
\* instruction_count.
PipelineEquivalence ==
    (Completed /\ NoCsrInstructions /\ data_hazards = 0) => SameResults

\* A run of four instructions without a hazard that has stored a word.
WitnessPipelineEquivalence ==
    /\ Completed
    /\ NoCsrInstructions
    /\ data_hazards = 0
    /\ pipeline_state.performance_metrics.instruction_count = 4
    /\ Reg(pipeline_state, 1) = PyInt(5)
    /\ load_word(pipeline_state.memory, PyInt(2 ^ 14)) = PyInt(2 ^ 14)

\* A branch or jump was in MEM in the last step and redirected the fetch.
RedirectedInMem == next_pipeline_registers[3].flush_signal # None

S4Program ==
    << BTypeInstruction("beq", 0, 0, 8), ITypeInstruction("addi", 1, 0, 1),
       ITypeInstruction("addi", 2, 0, 2) >>

\* C2: when a taken branch or a jump is in MEM, the instructions fetched
\* after it (the outputs of IF, ID and EX) are discarded in that step, so
\* they write no register and no memory and are not counted: the run ends
\* with the registers, memory and instruction_count of the single-cycle
\* engine.  beq x0,x0,8; addi x1,x0,1; addi x2,x0,2 ends with x1 = 0,
\* x2 = 2 and cycles >= 6.
BranchFlush ==
    /\ RedirectedInMem =>
            \A i \in 0 .. 2 : pipeline_registers[i] = PipelineRegister
    /\ (/\ Completed
        /\ NoCsrInstructions
        /\ pipeline_state.performance_metrics.branch_count
                + pipeline_state.performance_metrics.procedure_count > 0)
        => SameResults
    /\ (ProgramIs(S4Program) /\ PipelineDone) =>
            /\ Reg(pipeline_state, 1) = PyInt(0)
            /\ Reg(pipeline_state, 2) = PyInt(2)
            /\ pipeline_state.performance_metrics.instruction_count = 2
            /\ cycles >= 6

\* The run of beq x0,x0,8; addi x1,x0,1; addi x2,x0,2 is done and its
\* branch was taken.
WitnessBranchFlush ==
    /\ ProgramIs(S4Program)
    /\ PipelineDone
    /\ pipeline_state.performance_metrics.branch_count = 1
    /\ Reg(pipeline_state, 2) = PyInt(2)

S5Program ==
    << ITypeInstruction("addi", 1, 0, 5), RTypeInstruction("add", 2, 1, 1) >>

\* The instruction that left ID reads no register that an instruction ahead
\* of it has yet to write.
NoStaleRead ==
    \A i \in {2, 3} :
        LET w == get_write_register(pipeline_registers[i].instruction)
        IN  (pipeline_registers[1].instruction # EmptyInstruction /\ w # NoReg /\ w # 0)
                => /\ pipeline_registers[1].register_read_addr_1 # w
                   /\ pipeline_registers[1].register_read_addr_2 # w

\* C3: with hazard detection and no forwarding an instruction never reads a
\* register that an instruction in flight has yet to write: it is held at
\* ID until the producer has written back, so a run with read-after-write
\* dependencies ends with the registers and memory of the single-cycle
\* engine; addi x1,x0,5; add x2,x1,x1 ends with x1 = 5 and x2 = 10.
HazardDetection ==
    /\ NoStaleRead
    /\ (Completed /\ NoCsrInstructions /\ data_hazards > 0) =>
            /\ pipeline_state.register_file = single_state.register_file
            /\ pipeline_state.memory = single_state.memory
    /\ (ProgramIs(S5Program) /\ PipelineDone) =>
            /\ Reg(pipeline_state, 1) = PyInt(5)
            /\ Reg(pipeline_state, 2) = PyInt(10)

\* addi x1,x0,5; addi x0,x0,7; add x2,x1,x1 is done: the add met the addi
\* two stages ahead of it and was held.
WitnessHazardDetection ==
    /\ ProgramIs(<< ITypeInstruction("addi", 1, 0, 5), ITypeInstruction("addi", 0, 0, 7),
                    RTypeInstruction("add", 2, 1, 1) >>)
    /\ Completed
    /\ data_hazards = 1
    /\ Reg(pipeline_state, 2) = PyInt(10)

(***************************************************************************)
(* The cost of a data hazard.                                              *)
(***************************************************************************)
\* Pipeline.run from the given registers and state: the steps it takes to
\* be done, the steps in which ID signalled a hazard, and whether it got
\* done (without an exception, within MaxCycles steps).
RECURSIVE RunPipeline(_, _, _, _, _, _)
RunPipeline(instructions, detect_hazards, registers, state, n, hazards) ==
    IF is_done(instructions, registers, state)
    THEN [cycles |-> n, data_hazards |-> hazards, done |-> TRUE]
    ELSE IF n >= MaxCycles
    THEN [cycles |-> n, data_hazards |-> hazards, done |-> FALSE]
    ELSE
        Bind(EvaluateStages(instructions, detect_hazards, registers, state), LAMBDA evaluated :
        Bind(PipelineStep(instructions, detect_hazards, registers, state), LAMBDA r :
            IF r.exception # NoException
            THEN [cycles |-> n, data_hazards |-> hazards, done |-> FALSE]
            ELSE RunPipeline(instructions, detect_hazards, r.pipeline_registers, r.state,
                             n + 1,
                             IF evaluated.pipeline_registers[1].flush_signal # None
                             THEN hazards + 1 ELSE hazards)))

\* The instruction at address a is an R-type that reads the register the
\* instruction right before it writes.
DependentAt(instructions, a) ==
    /\ a \in DOMAIN instructions
    /\ (a - InstructionLength) \in DOMAIN instructions
    /\ instructions[a].mnemonic \in RTypeMnemonics
    /\ LET w == get_write_register(instructions[a - InstructionLength])
       IN  /\ w # NoReg
           /\ w # 0
           /\ (instructions[a].rs1 = w \/ instructions[a].rs2 = w)

\* The same program with these dependencies removed: the dependent
\* instruction reads x0 in place of the register written right before it.
DependencyRemoved(instructions) ==
    [a \in DOMAIN instructions |->
        IF DependentAt(instructions, a)
        THEN LET w == get_write_register(instructions[a - InstructionLength])
             IN  [instructions[a] EXCEPT
                    !.rs1 = IF @ = w THEN 0 ELSE @,
                    !.rs2 = IF @ = w THEN 0 ELSE @]
        ELSE instructions[a]]

StraightLine(instructions) ==
    \A a \in DOMAIN instructions :
        instructions[a].mnemonic \notin
            BTypeMnemonics \cup JTypeMnemonics \cup {"jalr"}

Baseline ==
    RunPipeline(DependencyRemoved(instruction_memory), detect_data_hazards,
                EmptyPipeline, RiscvArchitecturalState, 0, 0)

\* A straight-line program with a dependent R-type right after its
\* producer has run to done, and so does its baseline, without a hazard.
HazardRunAndBaselineDone ==
    /\ PipelineDone
    /\ pipeline_exception = NoException
    /\ \E a \in DOMAIN instruction_memory : DependentAt(instruction_memory, a)
    /\ StraightLine(instruction_memory)
    /\ Baseline.done
    /\ Baseline.data_hazards = 0

\* C4 (as amended): in straight-line code, an R-type instruction right
\* after the instruction that writes the register it reads makes the run
\* take at least 2 more cycles to be done than the same program with the
\* dependency removed, when that baseline has no hazard.
HazardStall ==
    HazardRunAndBaselineDone => cycles >= Baseline.cycles + 2

\* C4 (as stated): such a run takes at least 3 more cycles than the baseline.
HazardStallOfThree ==
    HazardRunAndBaselineDone => cycles >= Baseline.cycles + 3

\* addi x1,x0,5; add x2,x1,x1 is done after 9 cycles, its baseline after 7.
WitnessHazardStall ==
    /\ ProgramIs(S5Program)
    /\ HazardRunAndBaselineDone
    /\ data_hazards = 1
    /\ cycles = 9
    /\ Baseline.cycles = 7

(***************************************************************************)
(* The flush protocol.                                                     *)
(***************************************************************************)
\* The registers of the last step that carry a flush signal.
Flushing == {i \in StageIndices : next_pipeline_registers[i].flush_signal # None}

\* The registers and the program counter after the flush of register w alone.
FlushApplied(w) ==
    LET flush_signal == next_pipeline_registers[w].flush_signal
    IN  /\ pipeline_state.program_counter = flush_signal[2]
        /\ pipeline_registers =
                [i \in StageIndices |->
                    IF i < w + (IF flush_signal[1] THEN 1 ELSE 0)
                    THEN PipelineRegister ELSE next_pipeline_registers[i]]

\* When more than one register produced in a step carries a flush signal,
\* the flush applied is that of the stage nearest to write-back (MEM before
\* ID), whose instruction is the earliest in program order, and the program
\* counter after the step is its target.
FlushPrecedence ==
    Cardinality(Flushing) > 1 =>
        FlushApplied(CHOOSE w \in Flushing : \A i \in Flushing : i <= w)

\* The flush applied is that of the register with the lowest index (ID
\* before MEM).
FlushPrecedenceLowestIndex ==
    Cardinality(Flushing) > 1 =>
        FlushApplied(CHOOSE w \in Flushing : \A i \in Flushing : w <= i)

\* jal x1,12 was in MEM while add x2,x1,x1, fetched behind it, signalled a
\* hazard in ID: the fetch continues at the jump's target 12, not at 8.
WitnessFlushPrecedence ==
    /\ Flushing = {1, 3}
    /\ next_pipeline_registers[3].instruction = JTypeInstruction("jal", 1, 12)
    /\ next_pipeline_registers[3].flush_signal = FlushSignal(FALSE, PyInt(12))
    /\ next_pipeline_registers[1].flush_signal = FlushSignal(TRUE, PyInt(8))
    /\ pipeline_state.program_counter = PyInt(12)
    /\ cycles = 4

(***************************************************************************)
(* Termination.                                                            *)
(***************************************************************************)
\* The cycles a run of n instructions that executes each at most once can
\* take: one per instruction, two more when it is held at ID, three more
\* when it is a taken branch or a jump, and five to drain the pipeline.
TerminationBound == 5 + 6 * Cardinality(DOMAIN instruction_memory)

\* C6: the pipeline run of a program whose branches and jumps all go forward
\* gets done: as long as it is neither done nor ended by an exception it
\* has taken fewer than 5 + 6n cycles (a step is possible whenever the
\* pipeline is not done, so the run cannot stop before), and when it is
\* done there is no instruction at the program counter and every pipeline
\* register holds the Empty instruction.
Termination ==
    /\ (~PipelineDone /\ pipeline_exception = NoException) =>
            /\ cycles < TerminationBound
            /\ TerminationBound < MaxCycles
    /\ PipelineDone =>
            /\ ~instruction_at_pc(instruction_memory, pipeline_state)
            /\ \A i \in StageIndices :
                    pipeline_registers[i].instruction = EmptyInstruction

\* A run with a taken branch and a held instruction is done.
WitnessTermination ==
    /\ PipelineDone
    /\ pipeline_exception = NoException
    /\ pipeline_state.performance_metrics.branch_count = 1
    /\ data_hazards >= 1
    /\ pipeline_state.performance_metrics.instruction_count >= 2
    /\ cycles >= 8

(***************************************************************************)
(* Branches and jumps.                                                     *)
(***************************************************************************)
\* address + n for a small integer n.
Offset(address, n) == Plus(address, PyInt(n))

\* The condition of a conditional branch on two register values: blt and
\* bge compare them as signed 32-bit values, bltu and bgeu as unsigned.
ConditionHolds(mnemonic, a, b) ==
    CASE mnemonic = "beq" -> a = b
      [] mnemonic = "bne" -> a # b
      [] mnemonic = "blt" -> Less(Int32(a), Int32(b))
      [] mnemonic = "bge" -> LessEq(Int32(b), Int32(a))
      [] mnemonic = "bltu" -> Less(UInt32(a), UInt32(b))
      [] mnemonic = "bgeu" -> LessEq(UInt32(b), UInt32(a))

\* C11: after a single-cycle step of a conditional branch at address a with
\* stored immediate imm, the program counter is a + 2 * imm if the condition
\* holds and a + 4 otherwise.
BranchStep ==
    [][(/\ SingleStep
        /\ instruction_at_pc(instruction_memory, single_state)
        /\ SingleInstruction.mnemonic \in BTypeMnemonics) =>
            single_state'.program_counter =
                IF ConditionHolds(SingleInstruction.mnemonic,
                                  Reg(single_state, SingleInstruction.rs1),
                                  Reg(single_state, SingleInstruction.rs2))
                THEN Offset(single_state.program_counter, 2 * SingleInstruction.imm)
                ELSE Offset(single_state.program_counter, 4)]_vars

\* C13: a single-cycle step of jal rd, imm at address a writes a + 4 to rd
\* (rd stays 0 when rd = 0), leaves the program counter at a + 2 * imm and
\* increments procedure_count by exactly 1.
JalStep ==
    [][(/\ SingleStep
        /\ instruction_at_pc(instruction_memory, single_state)
        /\ SingleInstruction.mnemonic = "jal") =>
            /\ Reg(single_state', SingleInstruction.rd) =
                    IF SingleInstruction.rd = 0 THEN PyInt(0)
                    ELSE Offset(single_state.program_counter, 4)
            /\ single_state'.program_counter =
                    Offset(single_state.program_counter, 2 * SingleInstruction.imm)
            /\ single_state'.performance_metrics.procedure_count =
                    single_state.performance_metrics.procedure_count + 1]_vars

\* (rs1 + sext(imm)) mod 2^32 with bit 0 cleared.
JalrTarget(rs1, imm) == ClearBit0(UInt32(Plus(rs1, PyInt(imm))))

\* The instruction MEM works on in the next step of the pipeline engine.
InstructionInMem == pipeline_registers[2].instruction

\* C14: after jalr rd, rs1, imm at address a, rd = a + 4 and execution
\* continues at (the value rs1 held before + sext(imm)) mod 2^32 with bit 0
\* cleared, also when rd = rs1; the flush of MEM in the pipeline redirects
\* the program counter to that same target.
JalrStep ==
    [][/\ (/\ SingleStep
           /\ instruction_at_pc(instruction_memory, single_state)
           /\ SingleInstruction.mnemonic = "jalr") =>
                /\ SingleInstruction.rd # 0 =>
                        Reg(single_state', SingleInstruction.rd) =
                            Offset(single_state.program_counter, 4)
                /\ single_state'.program_counter =
                        JalrTarget(Reg(single_state, SingleInstruction.rs1),
                                   SingleInstruction.imm)
       /\ (/\ PipelineCycle
           /\ pipeline_exception' = NoException
           /\ InstructionInMem.mnemonic = "jalr") =>
                pipeline_state'.program_counter =
                    JalrTarget(pipeline_registers[2].register_read_data_1,
                               InstructionInMem.imm)]_vars

(***************************************************************************)
(* Branch accounting.                                                      *)
(***************************************************************************)
One(b) == IF b THEN 1 ELSE 0

\* The single-cycle engine is about to execute a conditional branch whose
\* condition holds.
SingleTakenBranch ==
    /\ instruction_at_pc(instruction_memory, single_state)
    /\ SingleInstruction.mnemonic \in BTypeMnemonics
    /\ ConditionHolds(SingleInstruction.mnemonic,
                      Reg(single_state, SingleInstruction.rs1),
                      Reg(single_state, SingleInstruction.rs2))
SingleJal ==
    /\ instruction_at_pc(instruction_memory, single_state)
    /\ SingleInstruction.mnemonic = "jal"

\* MEM is about to work on a conditional branch whose condition holds on
\* the register values the branch read.
TakenBranchInMem ==
    /\ InstructionInMem.mnemonic \in BTypeMnemonics
    /\ ConditionHolds(InstructionInMem.mnemonic,
                      pipeline_registers[2].register_read_data_1,
                      pipeline_registers[2].register_read_data_2)

\* C12: in both engines branch_count counts the conditional branches that
\* were taken and procedure_count the executed jal instructions: a step of
\* the single-cycle engine adds 1 to branch_count exactly for a taken
\* branch and 1 to procedure_count exactly for a jal; a step of the
\* pipeline engine adds them exactly for the instruction MEM works on, and
\* that instruction is on the correct path: it goes on to WB, while the
\* younger instructions behind a redirecting one are discarded before they
\* reach MEM.  Not-taken branches, jalr and discarded instructions add
\* nothing.
BranchAccounting ==
    [][/\ SingleStep =>
            /\ single_state'.performance_metrics.branch_count =
                    single_state.performance_metrics.branch_count
                        + One(SingleTakenBranch)
            /\ single_state'.performance_metrics.procedure_count =
                    single_state.performance_metrics.procedure_count
                        + One(SingleJal)
       /\ PipelineCycle =>
            /\ pipeline_state'.performance_metrics.branch_count =
                    pipeline_state.performance_metrics.branch_count
                        + One(TakenBranchInMem)
            /\ pipeline_state'.performance_metrics.procedure_count =
                    pipeline_state.performance_metrics.procedure_count
                        + One(InstructionInMem.mnemonic = "jal")
            /\ pipeline_exception' = NoException =>
                    /\ pipeline_registers'[3].instruction = InstructionInMem
                    /\ (TakenBranchInMem
                            \/ InstructionInMem.mnemonic \in {"jal", "jalr"}) =>
                            \A i \in 0 .. 2 :
                                pipeline_registers'[i].instruction = EmptyInstruction]_vars

\* Both engines ran bne (not taken), beq (taken, to an address past the
\* program) and never executed the jal behind the taken branch, which the
\* pipeline had fetched: one branch counted, no procedure.
WitnessBranchAccounting ==
    /\ ProgramIs(<<BTypeInstruction("bne", 0, 0, 8), BTypeInstruction("beq", 0, 0, 8),
                   JTypeInstruction("jal", 1, 12)>>)
    /\ Completed
    /\ pipeline_state.performance_metrics.branch_count = 1
    /\ pipeline_state.performance_metrics.procedure_count = 0
    /\ pipeline_state.performance_metrics.instruction_count = 2
    /\ single_state.performance_metrics.branch_count = 1
    /\ single_state.performance_metrics.procedure_count = 0

(***************************************************************************)
(* csrrw.                                                                  *)
(***************************************************************************)
\* C18: after csrrw rd, csr, rs1 with a permitted access, rd holds the
\* value the CSR had before the instruction and the CSR holds the value rs1
\* had before the instruction, for every rd and rs1, also when rd = rs1.
CsrrwSwap ==
    [][(/\ SingleStep
        /\ instruction_at_pc(instruction_memory, single_state)
        /\ SingleInstruction.mnemonic = "csrrw"
        /\ single_exception' = NoException) =>
            /\ SingleInstruction.rd # 0 =>
                    Reg(single_state', SingleInstruction.rd) =
                        load_word(single_state.csr_registers,
                                  PyInt(SingleInstruction.csr))
            /\ load_word(single_state'.csr_registers, PyInt(SingleInstruction.csr)) =
                    Reg(single_state, SingleInstruction.rs1)]_vars

(***************************************************************************)
(* The CSR file.                                                           *)
(***************************************************************************)
\* Bit n of a CSR address, and the two-bit field a[9:8].
Bit(address, n) == (address \div (2 ^ n)) % 2
PrivilegeField(address) == (address \div 256) % 4
LegalCsrAddress(address) == address >= 0 /\ address <= 4095
BothReadOnlyBits(address) == Bit(address, 11) = 1 /\ Bit(address, 10) = 1
Permitted(call) == call.error = NoError

\* C15: a CSR read or write at address a is permitted iff the field a[9:8]
\* is at most the current privilege level (for a write, of an address that
\* is not read-only).
CsrPrivilege ==
    [][((CsrLoad \/ CsrStore)
            /\ LegalCsrAddress(last_call'.address)
            /\ (last_call'.op = "csr_store" => ~BothReadOnlyBits(last_call'.address))) =>
        (Permitted(last_call') <=>
            PrivilegeField(last_call'.address) <= storage.csr_registers.privilege_level)]_vars

\* C16: every write (byte, halfword, word) to a CSR address with bits 11
\* and 10 both set fails and leaves the CSR file unchanged; a read of such
\* an address succeeds when the privilege check passes; a write to an
\* address with at most one of the two bits set succeeds when the privilege
\* check passes, and the value can be read back.
CsrReadOnly ==
    [][/\ (CsrStore /\ LegalCsrAddress(last_call'.address)
                    /\ BothReadOnlyBits(last_call'.address)) =>
            /\ ~Permitted(last_call')
            /\ storage' = storage
       /\ (CsrLoad /\ LegalCsrAddress(last_call'.address)
                   /\ BothReadOnlyBits(last_call'.address)
                   /\ check_privilege_level(storage.csr_registers,
                                            last_call'.address) = NoError) =>
            Permitted(last_call')
       /\ (CsrStore /\ LegalCsrAddress(last_call'.address)
                    /\ ~BothReadOnlyBits(last_call'.address)
                    /\ check_privilege_level(storage.csr_registers,
                                             last_call'.address) = NoError) =>
            /\ Permitted(last_call')
            /\ csr_load(last_call'.width, storage'.csr_registers,
                        last_call'.address).value = last_call'.value]_vars

\* A word was written to the CSR at 0x400, then a write to 0xC00 failed and
\* left that word in place.
WitnessCsrReadOnly ==
    /\ last_call.op = "csr_store"
    /\ last_call.address = 3072
    /\ ~Permitted(last_call)
    /\ calls = 2
    /\ load_word(storage.csr_registers, PyInt(1024)) = <<57005, 48879>>
    /\ csr_load_word(storage.csr_registers, 3072).value = PyInt(0)

\* C17: the privilege level is in 0 .. 3 in every reachable state: a call
\* of change_privilege_level with l in 0 .. 3 sets the level to l, a call
\* with l < 0 or l > 3 leaves it unchanged.
PrivilegeLevelRange ==
    /\ [](storage.csr_registers.privilege_level \in 0 .. 3)
    /\ [][ChangePrivilegeLevel =>
            storage'.csr_registers.privilege_level =
                IF last_call'.value \in {PyInt(l) : l \in 0 .. 3}
                THEN last_call'.value[2]
                ELSE storage.csr_registers.privilege_level]_vars

\* The level was set to 3, and a call with 4 left it at 3.
WitnessPrivilegeLevelRange ==
    /\ last_call.op = "change_privilege_level"
    /\ last_call.value = PyInt(4)
    /\ calls = 2
    /\ storage.csr_registers.privilege_level = 3

(***************************************************************************)
(* The data memory.                                                        *)
(***************************************************************************)
\* C19: a write of a value of the width followed by a read of that width at
\* the same address returns the value, at every width and address,
\* whatever the memory held before.
MemoryRoundTrip ==
    [][MemoryStore =>
        load(last_call'.width, storage'.memory, last_call'.address) =
            last_call'.value]_vars

\* After two earlier stores next to it, a word was stored at 2^32 - 1,
\* across the end of the address space, and reads back.
WitnessMemoryRoundTrip ==
    /\ calls = 3
    /\ storage.memory.address_length = 32
    /\ last_call = Call("store", 4, MaxUInt32, <<57005, 48879>>, NoError)
    /\ load_word(storage.memory, MaxUInt32) = <<57005, 48879>>
    /\ load_byte(storage.memory, PyInt(1)) = 173
    /\ load_byte(storage.memory, PyInt(255)) = 52

\* (v >> 8i) & 0xFF of a 32-bit value.
ByteOf(value, i) ==
    IF i < 2 THEN (value[2] \div (256 ^ i)) % 256
    ELSE (value[1] \div (256 ^ (i - 2))) % 256

\* C20: multi-byte accesses are little-endian: after a write of a word v at
\* a, the byte at a + i is (v >> 8i) & 0xFF for i = 0 .. 3; after a write of
\* a halfword h, the byte at a is h & 0xFF and the byte at a + 1 is h >> 8;
\* a wider read assembles the bytes in the same order.
LittleEndian ==
    [][MemoryStore =>
        /\ \A i \in 0 .. (last_call'.width - 1) :
                load_byte(storage'.memory, Offset(last_call'.address, i)) =
                    ByteOf(last_call'.value, i)
        /\ \A a \in MemoryAddresses :
                /\ load_halfword(storage'.memory, a) =
                        <<0, load_byte(storage'.memory, a)
                                + 256 * load_byte(storage'.memory, Offset(a, 1))>>
                /\ load_word(storage'.memory, a) =
                        <<load_byte(storage'.memory, Offset(a, 2))
                                + 256 * load_byte(storage'.memory, Offset(a, 3)),
                          load_byte(storage'.memory, a)
                                + 256 * load_byte(storage'.memory, Offset(a, 1))>>]_vars

\* In a memory of 8 address bits the word 0xDEADBEEF was stored at 255: its
\* low byte is at 255 and the next three at 0, 1 and 2.
WitnessLittleEndian ==
    /\ storage.memory.address_length = 8
    /\ last_call = Call("store", 4, PyInt(255), <<57005, 48879>>, NoError)
    /\ load_byte(storage.memory, PyInt(255)) = 239
    /\ load_byte(storage.memory, PyInt(0)) = 190
    /\ load_byte(storage.memory, PyInt(1)) = 173
    /\ load_byte(storage.memory, PyInt(2)) = 222

\* The keys of the memory file that an access of the width at the address
\* uses: (address + i) mod 2^W for each byte i of the width.
MemoryKeys(mem, address, width) ==
    {AddrMod(Offset(address, i), mem.address_length) : i \in 0 .. (width - 1)}
\* The byte the memory file holds under a key, 0 when it holds none.
ByteAt(mem, key) ==
    IF key \in DOMAIN mem.memory_file THEN mem.memory_file[key] ELSE 0

\* C21: every write and read at address a acts on a mod 2^W, byte by byte:
\* a write of the width changes the bytes at (a + i) mod 2^W and no other,
\* a word accessed at 2^W - 1 uses the bytes 2^W - 1, 0, 1 and 2, and a read
\* assembles the bytes at (a + i) mod 2^W, taking 0 for a byte that was
\* never written, and leaves the memory contents as they are.
MemoryWrap ==
    [][/\ MemoryStore =>
            LET mem == storage.memory
                after == storage'.memory
                keys == MemoryKeys(mem, last_call'.address, last_call'.width)
            IN  /\ DOMAIN after.memory_file = (DOMAIN mem.memory_file) \cup keys
                /\ \A k \in (DOMAIN mem.memory_file) \ keys :
                        after.memory_file[k] = mem.memory_file[k]
                /\ \A i \in 0 .. (last_call'.width - 1) :
                        ByteAt(after, AddrMod(Offset(last_call'.address, i),
                                              mem.address_length)) =
                            ByteOf(last_call'.value, i)
                /\ (last_call'.width = 4 /\ last_call'.address = MaxAddress(mem)) =>
                        keys = {MaxAddress(mem), PyInt(0), PyInt(1), PyInt(2)}
       /\ MemoryLoad =>
            LET mem == storage.memory
                a == last_call'.address
                W == mem.address_length
                byte(i) == IF i < last_call'.width
                           THEN ByteAt(mem, AddrMod(Offset(a, i), W))
                           ELSE 0
            IN  /\ storage' = storage
                /\ last_call'.value = FromBytes(byte(0), byte(1), byte(2), byte(3))
                /\ (MemoryKeys(mem, a, last_call'.width) \cap DOMAIN mem.memory_file = {}) =>
                        last_call'.value = PyInt(0)]_vars

\* The word 0xDEADBEEF was stored at 2^32 - 1 and took the bytes 2^32 - 1, 0,
\* 1 and 2; the word then read at 1 is made of the bytes 1 and 2 and of the
\* bytes 3 and 4, which were never written.
WitnessMemoryWrap ==
    /\ calls = 1
    /\ storage.memory.address_length = 32
    /\ DOMAIN storage.memory.memory_file = {MaxUInt32, PyInt(0), PyInt(1), PyInt(2)}
    /\ last_call = Call("load", 4, PyInt(1), <<0, 57005>>, NoError)

(***************************************************************************)
(* The register file.                                                      *)
(***************************************************************************)
\* C22: a freshly constructed register file holds 32 zeros; a write to
\* register 0 or to an index above 31 raises no error and leaves all 32
\* registers as they are; a write to an index 1 .. 31 changes that register,
\* to the value written, and no other register.
RegisterWriteFrame ==
    /\ [](calls = 0 =>
            /\ DOMAIN storage.register_file.registers = 0 .. 31
            /\ \A i \in 0 .. 31 : storage.register_file.registers[i] = PyInt(0))
    /\ [][RegisterWrite =>
            LET registers == storage.register_file.registers
                after == storage'.register_file.registers
                index == last_call'.address
            IN  /\ last_call'.error = NoError
                /\ (index = 0 \/ index > 31) => after = registers
                /\ (index >= 1 /\ index <= 31) =>
                        /\ DOMAIN after = 0 .. 31
                        /\ after[index] = last_call'.value
                        /\ \A i \in (0 .. 31) \ {index} : after[i] = registers[i]]_vars

\* Register 31 was written, and then a write to index 32 left it and the
\* other registers as they were.
WitnessRegisterWriteFrame ==
    /\ calls = 2
    /\ last_call = Call("register_write", 0, 32, PyInt(5), NoError)
    /\ storage.register_file.registers[31] = MaxUInt32
    /\ \A i \in 0 .. 30 : storage.register_file.registers[i] = PyInt(0)

(***************************************************************************)
(* The toy machine.                                                        *)
(***************************************************************************)
\* The instruction a step has executed, and the state it executed it in.
Stepped(mnemonic) == ToyStep /\ last_call'.value.mnemonic = mnemonic
BranchCount(state) == state.performance_metrics.branch_count

\* C23: BRZ addr with the accumulator 0 sets the PC to addr and adds 1 to
\* branch_count; with another accumulator it adds 1 to the PC and leaves
\* branch_count; the accumulator and the data memory stay as they are.
BrzStep ==
    [][Stepped("BRZ") =>
        /\ storage.accu = 0 =>
                /\ storage'.program_counter = last_call'.value.address
                /\ BranchCount(storage') = BranchCount(storage) + 1
        /\ storage.accu # 0 =>
                /\ storage'.program_counter = storage.program_counter + 1
                /\ BranchCount(storage') = BranchCount(storage)
        /\ storage'.accu = storage.accu
        /\ storage'.data_memory = storage.data_memory]_vars

\* BRZ $008 at address 5 was not taken with the accumulator 3 and is now
\* taken with the accumulator 0, as the second taken branch of the run.
WitnessBrzStep ==
    /\ storage.instruction_memory = MetricsProgram
    /\ last_call.op = "step"
    /\ last_call.address = 5
    /\ last_call.value = instruction_map("BRZ", 8)
    /\ storage.program_counter = 8
    /\ storage.accu = 0
    /\ BranchCount(storage) = 2
    /\ calls = 11

\* C24: the accumulator is always in 0 .. 65535: INC at 0xFFFF gives 0, DEC
\* at 0 gives 0xFFFF, ADD and SUB give the sum and the difference modulo
\* 2^16, and NOT gives the 16-bit complement.
AccuWraps ==
    /\ [](storage.accu \in 0 .. 65535)
    /\ [][/\ Stepped("INC") =>
                storage'.accu = IF storage.accu = 65535 THEN 0 ELSE storage.accu + 1
          /\ Stepped("DEC") =>
                storage'.accu = IF storage.accu = 0 THEN 65535 ELSE storage.accu - 1
          /\ Stepped("ADD") =>
                LET sum == storage.accu
                            + FileGet(storage.data_memory, last_call'.value.address)
                IN  storage'.accu = IF sum > 65535 THEN sum - 65536 ELSE sum
          /\ Stepped("SUB") =>
                LET difference == storage.accu
                            - FileGet(storage.data_memory, last_call'.value.address)
                IN  storage'.accu = IF difference < 0 THEN difference + 65536
                                    ELSE difference
          /\ Stepped("NOT") => storage'.accu + storage.accu = 65535]_vars

\* DEC took the accumulator from 0 to 0xFFFF and INC took it back to 0.
WitnessAccuWraps ==
    /\ storage.instruction_memory = << Toy("DEC"), Toy("INC") >>
    /\ calls = 2
    /\ last_call.op = "step"
    /\ last_call.value = Toy("INC")
    /\ storage.accu = 0

\* C25: from_integer(to_integer(i)) = i for every instruction i; to_integer
\* has the opcode in the bits 15 .. 12 and the address in the bits 11 .. 0
\* (0 for an instruction without address); from_integer gives NOP for a
\* word with the opcode field 13, 14 or 15.  to_integer(STO $123) = 0x0123,
\* from_integer(0x3ABC) = ADD $ABC, from_integer(0xF000) = NOP.
ToyRoundTrip ==
    /\ last_call.op = "to_integer" =>
            LET i == last_call.value.instruction
                word == last_call.address
            IN  /\ ToyEq(last_call.value.decoded, i)
                /\ last_call.value.decoded.mnemonic = i.mnemonic
                /\ word \in 0 .. 65535
                /\ word \div 4096 = i.opcode
                /\ word % 4096 = (IF i.mnemonic \in NoAddressMnemonics THEN 0
                                  ELSE i.address)
                /\ i = instruction_map("STO", 291) => word = 291
    /\ last_call.op = "from_integer" =>
            LET word == last_call.address
                decoded == last_call.value.decoded
            IN  /\ (word \div 4096) \in {13, 14, 15} => ToyEq(decoded, Toy("NOP"))
                /\ word = 15036 => ToyEq(decoded, instruction_map("ADD", 2748))
                /\ word = 61440 => ToyEq(decoded, Toy("NOP"))

\* XOR $FFF was encoded as 0x7FFF and decoded again.
WitnessToyRoundTrip ==
    /\ last_call.op = "to_integer"
    /\ last_call.address = 32767
    /\ last_call.value.instruction = instruction_map("XOR", 4095)
    /\ last_call.value.decoded = instruction_map("XOR", 4095)

SumOf(n) == ((n * (n + 1)) \div 2) % 65536
SumStarted(n) ==
    /\ calls = 0
    /\ storage.instruction_memory = SumProgram
    /\ FileGet(storage.data_memory, LoopCount) = n
    /\ FileGet(storage.data_memory, Result) = 0
SumEnded(n) ==
    /\ toy_is_done(storage)
    /\ FileGet(storage.data_memory, Result) = SumOf(n)
    /\ FileGet(storage.data_memory, LoopCount) = 0
    /\ storage.accu = 0

\* C26: the sum program started with n >= 1 at 0x400 and 0 at 0x401 gets
\* done, with n(n+1)/2 mod 2^16 at 0x401, 0 at 0x400 and the accumulator 0.
SumToN == \A n \in SumInputs : SumStarted(n) ~> SumEnded(n)

\* The run with n = 20 is done after 178 steps with 210 at 0x401.
WitnessSumToN ==
    /\ storage.instruction_memory = SumProgram
    /\ toy_is_done(storage)
    /\ calls = 178
    /\ FileGet(storage.data_memory, Result) = 210
    /\ FileGet(storage.data_memory, LoopCount) = 0
    /\ storage.accu = 0

\* C27: every step executes one instruction: cycles and instruction_count
\* are the number of steps taken; every instruction but a taken BRZ adds 1
\* to the PC; a step is possible (within the bound of the run) exactly
\* when the PC is not past the last loaded instruction, and the program of
\* seven instructions in a row ends with the PC 7.
ToyEngineStep ==
    /\ [](/\ storage.performance_metrics.cycles = calls
          /\ storage.performance_metrics.instruction_count = calls
          /\ calls < MaxToySteps =>
                ((ENABLED ToyStep) <=>
                    storage.program_counter < Len(storage.instruction_memory))
          /\ (storage.instruction_memory = StraightProgram /\ ~ENABLED ToyStep) =>
                storage.program_counter = 7 /\ calls = 7)
    /\ [][ToyStep =>
            /\ last_call'.value =
                    storage.instruction_memory[storage.program_counter + 1]
            /\ ~(last_call'.value.mnemonic = "BRZ" /\ storage.accu = 0) =>
                    storage'.program_counter = storage.program_counter + 1]_vars

\* The program of seven instructions is done after seven steps at PC 7.
WitnessToyEngineStep ==
    /\ storage.instruction_memory = StraightProgram
    /\ toy_is_done(storage)
    /\ storage.program_counter = 7
    /\ storage.performance_metrics.cycles = 7
    /\ storage.performance_metrics.instruction_count = 7
    /\ storage.accu = 0

(***************************************************************************)
(* Single instructions.                                                    *)
(***************************************************************************)
\* A step that executed an instruction of one of the mnemonics.
Executed(mnemonics) ==
    /\ last_call'.op = "behavior"
    /\ last_call'.value.instruction.mnemonic \in mnemonics
    /\ calls' = calls
\* Bit i of a 32-bit value.
BitOf(value, i) ==
    IF i < 16 THEN (value[2] \div (2 ^ i)) % 2 ELSE (value[1] \div (2 ^ (i - 16))) % 2
\* Bit i of the value a shifted by k, 0 <= k <= 31: a left shift and a
\* logical right shift fill with 0, an arithmetic right shift with bit 31.
ShiftedBit(mnemonic, a, k, i) ==
    CASE mnemonic \in {"sll", "slli"} -> IF i >= k THEN BitOf(a, i - k) ELSE 0
      [] mnemonic \in {"srl", "srli"} -> IF i + k <= 31 THEN BitOf(a, i + k) ELSE 0
      [] mnemonic \in {"sra", "srai"} ->
            IF i + k <= 31 THEN BitOf(a, i + k) ELSE BitOf(a, 31)

\* C28: a shift uses the low 5 bits of its amount: sll, srl and sra shift
\* by rs2 mod 32, slli, srli and srai by imm & 31, in behavior and in
\* alu_compute (whose result is taken modulo 2^32, as the register takes
\* it); sra and srai fill with bit 31, srl and srli with 0.
ShiftMasking ==
    [][Executed(ShiftMnemonics) =>
        LET arguments == last_call'.value.arguments
            a == Reg(storage, arguments.rs1)
            k == IF arguments.mnemonic \in ShiftITypeMnemonics
                 THEN arguments.imm % 32
                 ELSE Reg(storage, arguments.rs2)[2] % 32
            result == Reg(storage', arguments.rd)
        IN  /\ last_call'.error = NoError
            /\ IsUInt32(result)
            /\ \A i \in 0 .. 31 :
                    BitOf(result, i) = ShiftedBit(arguments.mnemonic, a, k, i)
            /\ UInt32(last_call'.value.alu) = result]_vars

\* srai x3, x1, 33 with x1 = 0x80000001 shifted by 1 and filled with bit
\* 31: x3 = 0xC0000000.
WitnessShiftMasking ==
    /\ last_call.op = "behavior"
    /\ last_call.value.arguments = Instr("srai", 3, 1, NoReg, 33, 0)
    /\ Reg(storage, 1) = <<32768, 1>>
    /\ Reg(storage, 3) = <<49152, 0>>

\* A Python integer reduced to 0 .. 2^32 - 1 by one addition or
\* subtraction of 2^32.
Wrap32(a) ==
    IF Less(a, PyInt(0)) THEN Plus(a, TwoPow32)
    ELSE IF Less(a, TwoPow32) THEN a
    ELSE Minus(a, TwoPow32)
\* The 12-bit pattern i as a signed value: i - 4096 for i >= 2048.
Sext12(i) == IF i >= 2048 THEN PyInt(i - 4096) ELSE PyInt(i)

\* With the register file of the constructor (fixedint values): addi rd, x0,
\* i leaves rd = sext12(i) as a 32-bit value, 2^32 - (4096 - i) for
\* i >= 2048, for every 12-bit pattern i; the results of add, sub and addi
\* are the sum and difference modulo 2^32.
SignExtension ==
    [][Executed({"add", "sub", "addi"}) =>
        LET arguments == last_call'.value.arguments
            a == Reg(storage, arguments.rs1)
            result == Reg(storage', arguments.rd)
            expected ==
                CASE arguments.mnemonic = "add" ->
                        Wrap32(Plus(a, Reg(storage, arguments.rs2)))
                  [] arguments.mnemonic = "sub" ->
                        Wrap32(Minus(a, Reg(storage, arguments.rs2)))
                  [] arguments.mnemonic = "addi" ->
                        Wrap32(Plus(a, Sext12(arguments.imm)))
        IN  /\ last_call'.error = NoError
            /\ IsUInt32(result)
            /\ result = expected
            /\ UInt32(last_call'.value.alu) = result
            /\ (arguments.mnemonic = "addi" /\ arguments.rs1 = 0
                    /\ arguments.imm >= 2048) =>
                    result = Minus(TwoPow32, PyInt(4096 - arguments.imm))]_vars

\* addi x3, x0, 0x800 left x3 = 0xFFFFF800.
WitnessSignExtension ==
    /\ last_call.op = "behavior"
    /\ last_call.value.arguments = Instr("addi", 3, 0, NoReg, 2048, 0)
    /\ Reg(storage, 3) = <<65535, 63488>>

\* C30: ecall, ebreak and fence raise InstructionNotImplemented with their
\* mnemonic and change no register, no memory byte, no CSR and not the PC.
NotImplemented ==
    [][Executed(UnimplementedMnemonics) =>
        /\ last_call'.error.kind = "InstructionNotImplemented"
        /\ last_call'.error.text = last_call'.value.arguments.mnemonic
        /\ storage'.register_file = storage.register_file
        /\ storage'.memory = storage.memory
        /\ storage'.csr_registers = storage.csr_registers
        /\ storage'.program_counter = storage.program_counter]_vars

\* fence was executed and raised; x1 and the PC are as before.
WitnessNotImplemented ==
    /\ last_call.op = "behavior"
    /\ last_call.value.arguments.mnemonic = "fence"
    /\ last_call.error.kind = "InstructionNotImplemented"
    /\ last_call.error.text = "fence"
    /\ Reg(storage, 1) = MaxUInt32
    /\ storage.program_counter = PyInt(8)

(***************************************************************************)
(* Runs with hazard detection on and off, also of programs that branch     *)
(* and jump backwards.                                                     *)
(***************************************************************************)
\* Programs with a branch and a jump whose target lies below address 0.
BackwardPrograms ==
    { << BTypeInstruction("beq", 0, 0, 0 - 8) >>,
      << ITypeInstruction("addi", 1, 0, 5), JTypeInstruction("jal", 2, 0 - 12),
         ITypeInstruction("addi", 2, 0, 2) >> }

\* InstructionDecodeStage(detect_data_hazards=True) or (...=False).
DetectInit ==
    /\ instruction_memory \in
            {LoadProgram(program) :
                program \in ProgramsOver(InstructionPool, MaxProgLen)
                                \cup ScenarioPrograms \cup BackwardPrograms}
    /\ detect_data_hazards \in BOOLEAN
    /\ single_state = RiscvArchitecturalState
    /\ single_register = PipelineRegister
    /\ single_exception = NoException
    /\ pipeline_state = RiscvArchitecturalState
    /\ pipeline_registers = EmptyPipeline
    /\ pipeline_exception = NoException
    /\ next_pipeline_registers = EmptyPipeline
    /\ data_hazards = 0
    /\ cycles = 0
    /\ storage = RiscvArchitecturalState
    /\ last_call = NoCall
    /\ calls = 0

DetectSpec == DetectInit /\ [][Next]_vars

(***************************************************************************)
(* Runs with hazard detection of the programs above and of further ones:   *)
(* every load and store at addresses outside the legal range, and a jalr   *)
(* behind its producer.                                                    *)
(***************************************************************************)
\* Each load and each store at address 0, below min_bytes, and behind
\* addi x1,x0,-4 with the offset 8: rs1 + imm is 2^32 + 4.
RangePrograms ==
    {<< ITypeInstruction(m, 1, 0, 0) >> : m \in MemoryITypeMnemonics}
    \cup {<< STypeInstruction(m, 0, 0, 0) >> : m \in STypeMnemonics}
    \cup {<< ITypeInstruction("addi", 1, 0, 0 - 4), ITypeInstruction(m, 2, 1, 8) >> :
                m \in MemoryITypeMnemonics}
    \cup {<< ITypeInstruction("addi", 1, 0, 0 - 4), STypeInstruction(m, 1, 0, 8) >> :
                m \in STypeMnemonics}

\* A jalr that reads the register the instruction before it writes and
\* whose sum passes 2^32: the target is the instruction after the jalr.
JalrHazardProgram ==
    << ITypeInstruction("addi", 1, 0, 0 - 4), ITypeInstruction("jalr", 2, 1, 12),
       ITypeInstruction("addi", 3, 0, 1) >>

\* The data memory of the default state, and one of 8-bit addresses whose
\* legal addresses are 16 .. 255.
RangeMemories ==
    {Memory(DefaultAddressLength, DefaultMinBytes), Memory(8, PyInt(16))}

\* Both engines start from RiscvArchitecturalState(memory=...).  The small
\* memory is used for the programs that access the data memory.
FurtherInit ==
    /\ \E memory \in RangeMemories :
        /\ instruction_memory \in
            {LoadProgram(program) :
                program \in
                    IF memory = Memory(DefaultAddressLength, DefaultMinBytes)
                    THEN ProgramsOver(InstructionPool, MaxProgLen)
                            \cup ScenarioPrograms \cup RangePrograms
                            \cup {JalrHazardProgram}
                    ELSE ScenarioPrograms \cup RangePrograms}
        /\ single_state = [RiscvArchitecturalState EXCEPT !.memory = memory]
        /\ pipeline_state = [RiscvArchitecturalState EXCEPT !.memory = memory]
    /\ detect_data_hazards = TRUE
    /\ single_register = PipelineRegister
    /\ single_exception = NoException
    /\ pipeline_registers = EmptyPipeline
    /\ pipeline_exception = NoException
    /\ next_pipeline_registers = EmptyPipeline
    /\ data_hazards = 0
    /\ cycles = 0
    /\ storage = RiscvArchitecturalState
    /\ last_call = NoCall
    /\ calls = 0

FurtherSpec == FurtherInit /\ [][Next]_vars

\* The step is a step of the pipeline engine in which no stage raised.
PipelineStepped == cycles' = cycles + 1

\* The instruction that register i held before the step is in EX (i = 1),
\* in MEM (i = 2) or in WB (i = 3) during the step; it writes a register
\* other than x0 that the instruction decoded in the step reads.
WritesSourceOfDecoded(i) ==
    LET w == pipeline_registers[i].write_register
    IN  /\ w # NoReg
        /\ w # 0
        /\ \/ next_pipeline_registers'[1].register_read_addr_1 = w
           \/ next_pipeline_registers'[1].register_read_addr_2 = w

\* The flush signal ID gives in the step when it inspects these registers.
DecodeFlushOver(inspected) ==
    next_pipeline_registers'[1].flush_signal =
        IF detect_data_hazards /\ (\E i \in inspected : WritesSourceOfDecoded(i))
        THEN FlushSignal(TRUE, pipeline_registers[0].address_of_instruction)
        ELSE None

\* C31 (as amended): ID emits an inclusive flush to the address of its own
\* instruction iff hazard detection is enabled and the write register of an
\* instruction in EX or MEM is not x0 and is ra1 or ra2 of the instruction
\* being decoded; with detection disabled, with a match on x0 only, with
\* bubbles in EX and MEM, or with the only match in WB, ID emits no flush.
DecodeFlush == [][PipelineStepped => DecodeFlushOver({1, 2})]_vars

\* C31 (as stated): the instruction in WB is inspected as well.
DecodeFlushWithWriteback == [][PipelineStepped => DecodeFlushOver({1, 2, 3})]_vars

\* add x2,x1,x1 at address 4 was decoded behind addi x1,x0,5 and flushed
\* with its own address; the fetch continues at 4.
WitnessDecodeFlush ==
    /\ detect_data_hazards
    /\ next_pipeline_registers[1].instruction = RTypeInstruction("add", 2, 1, 1)
    /\ next_pipeline_registers[2].instruction = ITypeInstruction("addi", 1, 0, 5)
    /\ next_pipeline_registers[1].flush_signal = FlushSignal(TRUE, PyInt(4))
    /\ pipeline_registers[1] = PipelineRegister
    /\ pipeline_state.program_counter = PyInt(4)

(***************************************************************************)
(* The flush MEM emits.                                                    *)
(***************************************************************************)
\* The flush signal due for the instruction that is in MEM during the step
\* (the EX output of the step before): an exclusive flush to
\* address_of_instruction + imm for a taken branch and for jal, to the ALU
\* result for jalr, and none otherwise.
ControlTransferFlush(pipeline_register) ==
    LET m == pipeline_register.instruction.mnemonic
    IN  IF \/ m = "jal"
           \/ /\ m \in BTypeMnemonics
              /\ ConditionHolds(m, pipeline_register.register_read_data_1,
                                pipeline_register.register_read_data_2)
        THEN FlushSignal(FALSE, Plus(pipeline_register.address_of_instruction,
                                     pipeline_register.imm))
        ELSE IF m = "jalr"
        THEN FlushSignal(FALSE, pipeline_register.result)
        ELSE None

\* C32: MEM emits a flush exactly for control transfers: a taken branch or
\* a jal gives an exclusive flush to address_of_instruction + imm, a jalr
\* an exclusive flush to the ALU result, a branch not taken or any other
\* instruction no flush; the flush being exclusive, the branch or jump
\* stays in the MEM output and is the instruction WB handles in the next
\* step.
MemoryFlush ==
    [][PipelineStepped =>
        /\ next_pipeline_registers'[3].flush_signal =
                ControlTransferFlush(pipeline_registers[2])
        /\ next_pipeline_registers'[3].instruction = pipeline_registers[2].instruction
        /\ pipeline_registers'[3] = next_pipeline_registers'[3]
        /\ next_pipeline_registers'[4].instruction = pipeline_registers[3].instruction
        /\ pipeline_registers'[4] = next_pipeline_registers'[4]]_vars

\* jalr x1,x1,8 behind addi x1,x0,5 was in MEM: it gave an exclusive flush
\* to its ALU result 12, the registers before it are cleared and it stays.
WitnessMemoryFlush ==
    /\ next_pipeline_registers[3].instruction = ITypeInstruction("jalr", 1, 1, 8)
    /\ next_pipeline_registers[3].flush_signal = FlushSignal(FALSE, PyInt(12))
    /\ pipeline_registers[3].instruction = ITypeInstruction("jalr", 1, 1, 8)
    /\ \A i \in 0 .. 2 : pipeline_registers[i] = PipelineRegister
    /\ pipeline_state.program_counter = PyInt(12)

(***************************************************************************)
(* instruction_count in the pipeline.                                      *)
(***************************************************************************)
\* The instruction that is in MEM and the one that is in WB during the step.
InMem == pipeline_registers[2].instruction
InWb == pipeline_registers[3].instruction

\* C33: a step of the pipeline adds one to instruction_count when the
\* instruction in WB is not the Empty instruction and nothing when it is;
\* a bubble in WB changes no register, a bubble in MEM no memory byte and
\* neither branch_count nor procedure_count.  An instruction fetched again
\* after a hazard flush is so counted once and a flushed instruction never:
\* a straight-line program of n instructions that is done has
\* instruction_count = n, whether or not instructions were held.
InstructionCount ==
    /\ [][PipelineStepped =>
            /\ pipeline_state'.performance_metrics.instruction_count =
                    pipeline_state.performance_metrics.instruction_count
                        + (IF InWb # EmptyInstruction THEN 1 ELSE 0)
            /\ InWb = EmptyInstruction =>
                    pipeline_state'.register_file = pipeline_state.register_file
            /\ InMem = EmptyInstruction =>
                    /\ pipeline_state'.memory = pipeline_state.memory
                    /\ pipeline_state'.performance_metrics.branch_count =
                            pipeline_state.performance_metrics.branch_count
                    /\ pipeline_state'.performance_metrics.procedure_count =
                            pipeline_state.performance_metrics.procedure_count]_vars
    /\ []((/\ PipelineDone
           /\ pipeline_exception = NoException
           /\ StraightLine(instruction_memory))
            => pipeline_state.performance_metrics.instruction_count =
                    Cardinality(DOMAIN instruction_memory))

\* addi x1,x0,5; add x2,x1,x1; addi x0,x0,7 is done: the add was held once,
\* it and the instruction behind it were fetched twice, the count is 3.
WitnessInstructionCount ==
    /\ ProgramIs(<< ITypeInstruction("addi", 1, 0, 5), RTypeInstruction("add", 2, 1, 1),
                    ITypeInstruction("addi", 0, 0, 7) >>)
    /\ PipelineDone
    /\ data_hazards = 1
    /\ cycles = 10
    /\ pipeline_state.performance_metrics.instruction_count = 3

(***************************************************************************)
(* The order of the stages within a step.                                  *)
(***************************************************************************)
\* The value WB writes in the step: the data it selected, as 32 bits.
WrittenByWb == UInt32(next_pipeline_registers'[4].register_write_data)

\* WB writes register w (not x0) in the step.
WbWrites(w) ==
    /\ w # NoReg
    /\ w # 0
    /\ pipeline_registers[3].write_register = w
    /\ pipeline_registers[3].control_unit_signals.reg_write
    /\ next_pipeline_registers'[4].register_write_data # None

\* C34: in a step every stage works on the register the stage before it
\* produced in the step before (IF on the program counter that step left),
\* and WB runs before ID: the value WB writes to a register in a step is
\* the value ID reads from that register in the same step.
StageOrder ==
    [][PipelineStepped =>
        /\ \A i \in 1 .. 4 :
                next_pipeline_registers'[i].instruction = pipeline_registers[i - 1].instruction
        /\ instruction_at_pc(instruction_memory, pipeline_state) =>
                /\ next_pipeline_registers'[0].address_of_instruction =
                        pipeline_state.program_counter
                /\ next_pipeline_registers'[0].instruction =
                        read_instruction(instruction_memory, pipeline_state.program_counter)
        /\ LET decoded == next_pipeline_registers'[1]
           IN  /\ WbWrites(decoded.register_read_addr_1) =>
                    decoded.register_read_data_1 = WrittenByWb
               /\ (/\ WbWrites(decoded.register_read_addr_2)
                   /\ decoded.instruction.mnemonic \in RTypeMnemonics \cup BTypeMnemonics)
                    => decoded.register_read_data_2 = WrittenByWb]_vars

\* addi x1,x0,5 was in WB in the step in which add x2,x1,x1 was decoded:
\* the add read 5 from x1 and was not held.
WitnessStageOrder ==
    /\ next_pipeline_registers[4].instruction = ITypeInstruction("addi", 1, 0, 5)
    /\ next_pipeline_registers[4].register_write_data = PyInt(5)
    /\ next_pipeline_registers[1].instruction = RTypeInstruction("add", 2, 1, 1)
    /\ next_pipeline_registers[1].register_read_data_1 = PyInt(5)
    /\ next_pipeline_registers[1].register_read_data_2 = PyInt(5)
    /\ next_pipeline_registers[1].flush_signal = None

(***************************************************************************)
(* When the effects of an instruction appear in the architectural state.   *)
(***************************************************************************)
\* The register file changes in the step only by the write of the
\* instruction in WB: every other register keeps its value.
RegistersChangeByWbOnly ==
    pipeline_state'.register_file # pipeline_state.register_file =>
        /\ InWb # EmptyInstruction
        /\ \A r \in 0 .. (NumRegisters - 1) :
                r # pipeline_registers[3].write_register =>
                    Reg(pipeline_state', r) = Reg(pipeline_state, r)

\* The word that sw stores appears in the step in which it is in MEM.
StoredInMem ==
    InMem.mnemonic = "sw" =>
        load_word(pipeline_state'.memory, pipeline_registers[2].result) =
            UInt32(pipeline_registers[2].register_read_data_2)

\* C35 (as amended): a register write appears in the architectural state
\* in the step in which its instruction is in WB and not before; a
\* data-memory write appears in the step in which its instruction is in
\* MEM, one step before that instruction is in WB, and not before.
EffectsVisible ==
    [][PipelineStepped =>
        /\ RegistersChangeByWbOnly
        /\ pipeline_state'.memory # pipeline_state.memory =>
                InMem.mnemonic \in STypeMnemonics
        /\ StoredInMem]_vars

\* C35 (as stated): the data memory, like the register file, changes only
\* in a step in which the writing instruction is in WB.
EffectsVisibleInWriteback ==
    [][PipelineStepped =>
        /\ RegistersChangeByWbOnly
        /\ pipeline_state'.memory # pipeline_state.memory =>
                InWb.mnemonic \in STypeMnemonics]_vars

\* lui x2,4; addi x1,x0,5; addi x0,x0,7; sw x2,0(x2): the sw has left MEM
\* and was not in WB yet (three instructions are counted); the word is in
\* the memory.
WitnessEffectsVisible ==
    /\ next_pipeline_registers[3].instruction = STypeInstruction("sw", 2, 2, 0)
    /\ pipeline_registers[3].instruction = STypeInstruction("sw", 2, 2, 0)
    /\ pipeline_state.performance_metrics.instruction_count = 3
    /\ load_word(pipeline_state.memory, PyInt(2 ^ 14)) = PyInt(2 ^ 14)
    /\ Reg(pipeline_state, 2) = PyInt(2 ^ 14)

(***************************************************************************)
(* The range of the program counter.                                       *)
(***************************************************************************)
\* C36: in every state of either engine the program counter is an integer
\* in 0 .. 2^32 - 1, also after a branch or jump backwards whose target
\* lies below address 0 and after a jalr whose rs1 + imm passes 2^32 - 1.
ProgramCounterRange ==
    /\ IsUInt32(single_state.program_counter)
    /\ IsUInt32(pipeline_state.program_counter)

(***************************************************************************)
(* A register file built from a caller's list (test mode).                 *)
(***************************************************************************)
MaxTestSteps == 2

\* RegisterFile(registers=[x0, a, b, 0]): a plain list of four Python ints,
\* x0 with any value; the tests put values from -2 to 2^32 - 1 in a list.
TestValues == {PyInt(0 - 1), PyInt(1), PyInt(5), PyInt(9), MaxUInt32}
TestRegisterLists ==
    {[i \in 0 .. 3 |-> list[i + 1]] :
        list \in {<<x0, a, b, PyInt(0)>> :
                    x0 \in {PyInt(0), PyInt(2)}, a \in TestValues, b \in TestValues}}
ListState(registers) ==
    [RiscvArchitecturalState EXCEPT
        !.register_file = [hardwired |-> FALSE, registers |-> registers,
                           plain |-> DOMAIN registers]]

\* ADD and SUB with any rd of the list; the operands are x1, x2 or x0, x1.
\* SLLI and SRLI of x1 by one bit with any rd.
TestArguments ==
    {Instr(m, rd, rs[1], rs[2], 0, 0) :
        m \in {"add", "sub"}, rd \in 0 .. 3, rs \in {<<1, 2>>, <<0, 1>>}}
    \cup {Instr(m, rd, 1, NoReg, 1, 0) : m \in {"slli", "srli"}, rd \in 0 .. 3}

TestModeInit ==
    /\ EnginesEmpty
    /\ \E registers \in TestRegisterLists : storage = ListState(registers)
    /\ last_call = NoCall
    /\ calls = 0

\* instruction.behavior(state) on the state with the list.
TestModeExecute ==
    /\ calls < MaxTestSteps
    /\ \E arguments \in TestArguments :
         \E instr \in {Construct(arguments)} :
          \E r \in {behavior(instr, storage)} :
            /\ storage' = r.state
            /\ last_call' = Call("behavior", 0, NoReg,
                                 [arguments |-> arguments, instruction |-> instr,
                                  alu |-> None], r.error)
    /\ calls' = calls + 1
    /\ EnginesIdle

TestModeNext == TestModeExecute

TestModeSpec == TestModeInit /\ [][TestModeNext]_vars

\* The registers as a list.
RegisterList(state) == [i \in 1 .. 4 |-> Reg(state, i - 1)]
ListOf(list) == [i \in 1 .. 4 |-> PyInt(list[i])]

\* What the instructions leave in rd: ADD the sum, as a Python int when both
\* operands are plain elements of the list and as 32 bits when one of them
\* was written as a fixedint value before; SUB the difference as 32 bits;
\* SLLI and SRLI by one bit the double and the half (rounded down) of x1, as
\* a Python int when x1 is plain and as 32 bits otherwise.
TestModeResult(arguments, state) ==
    LET m == arguments.mnemonic
        rs1 == Reg(state, arguments.rs1)
        plain == state.register_file.plain
    IN  CASE m = "sub" -> UInt32(Minus(rs1, Reg(state, arguments.rs2)))
          [] m = "add" ->
                IF {arguments.rs1, arguments.rs2} \subseteq plain
                THEN Plus(rs1, Reg(state, arguments.rs2))
                ELSE UInt32(Plus(rs1, Reg(state, arguments.rs2)))
          [] m = "slli" ->
                IF arguments.rs1 \in plain THEN Plus(rs1, rs1)
                ELSE UInt32(Plus(rs1, rs1))
          [] m = "srli" ->
                <<rs1[1] \div 2, (rs1[2] + ((rs1[1] % 2) * Half)) \div 2>>

\* The instruction wrote its result to rd, x0 included, and nothing else.
WritesAnyRegister ==
    LET arguments == last_call'.value.arguments
    IN  /\ last_call'.error = NoError
        /\ \A r \in 0 .. 3 :
                Reg(storage', r) =
                    IF r = arguments.rd THEN TestModeResult(arguments, storage)
                    ELSE Reg(storage, r)

\* C37: with a register file built from a plain list the register-zero
\* guard is not in force: an instruction with rd = 0 writes its result to
\* register 0.  ADD x0,x1,x2 on [0,5,9,0] gives [14,5,9,0] and SUB x0,x1,x2
\* gives [-4,5,9,0].
TestModeWrites ==
    [][calls' = calls + 1 =>
        /\ WritesAnyRegister
        /\ (RegisterList(storage) = ListOf(<<0, 5, 9, 0>>)
                /\ last_call'.value.arguments = Instr("add", 0, 1, 2, 0, 0))
            => RegisterList(storage') = ListOf(<<14, 5, 9, 0>>)
        /\ (RegisterList(storage) = ListOf(<<0, 5, 9, 0>>)
                /\ last_call'.value.arguments = Instr("sub", 0, 1, 2, 0, 0))
            => RegisterList(storage') = ListOf(<<0 - 4, 5, 9, 0>>)]_vars

\* Every instruction writes the result it computes to rd, register 0
\* included, and ADD x0,x1,x2 on [0,5,9,0] gives [14,5,9,0]; SUB x0,x1,x2
\* leaves the difference as 32 bits, [2^32 - 4,5,9,0].
TestModeWritesResult ==
    [][calls' = calls + 1 =>
        /\ WritesAnyRegister
        /\ (RegisterList(storage) = ListOf(<<0, 5, 9, 0>>)
                /\ last_call'.value.arguments = Instr("add", 0, 1, 2, 0, 0))
            => RegisterList(storage') = ListOf(<<14, 5, 9, 0>>)
        /\ (RegisterList(storage) = ListOf(<<0, 5, 9, 0>>)
                /\ last_call'.value.arguments = Instr("sub", 0, 1, 2, 0, 0))
            => RegisterList(storage') =
                    [ListOf(<<0, 5, 9, 0>>) EXCEPT ![1] = Minus(TwoPow32, PyInt(4))]]_vars

\* C29: the results of add and sub always wrap modulo 2^32: after the
\* instruction rd holds a value in 0 .. 2^32 - 1, also in a register file
\* built from a list of Python ints.
ResultsWrap ==
    [][(calls' = calls + 1 /\ last_call'.value.arguments.mnemonic \in {"add", "sub"}) =>
        IsUInt32(Reg(storage', last_call'.value.arguments.rd))]_vars

(***************************************************************************)
(* Which stage writes which part of the architectural state.               *)
(***************************************************************************)
\* The parts of the architectural state.
Parts(state) ==
    [program_counter |-> state.program_counter,
     memory |-> state.memory,
     register_file |-> state.register_file,
     csr_registers |-> state.csr_registers,
     instruction_count |-> state.performance_metrics.instruction_count,
     branch_count |-> state.performance_metrics.branch_count,
     procedure_count |-> state.performance_metrics.procedure_count]
PartNames == DOMAIN Parts(RiscvArchitecturalState)

\* The two states differ in the named parts at most.
ChangesOnly(names, before, after) ==
    \A name \in PartNames \ names : Parts(after)[name] = Parts(before)[name]

\* The states between the stages of the step that is taken from the
\* current state: after WB, MEM, EX, ID and IF.
StatesOfStep ==
    LET wb == RegisterWritebackStage(pipeline_registers, 3, pipeline_state)
        mem == MemoryAccessStage(pipeline_registers, 2, wb.state)
        ex == ExecuteStage(pipeline_registers, 1, mem.state)
        id == InstructionDecodeStage(detect_data_hazards, pipeline_registers, 0, ex.state)
        if == InstructionFetchStage(instruction_memory, pipeline_registers, NoReg, id.state)
    IN  [wb |-> wb, mem |-> mem, ex |-> ex, id |-> id, if |-> if]

\* C38: in a step each part of the architectural state has one writer: WB
\* changes the register file and instruction_count at most, MEM the data
\* memory, branch_count and procedure_count, ID and EX nothing, IF the
\* program counter, and the flush at the end of the step the program
\* counter.
SingleWriter ==
    [][PipelineStepped =>
        LET stages == StatesOfStep
        IN  /\ \A i \in StageIndices :
                    next_pipeline_registers'[i] =
                        (CASE i = 0 -> stages.if.register
                           [] i = 1 -> stages.id.register
                           [] i = 2 -> stages.ex.register
                           [] i = 3 -> stages.mem.register
                           [] i = 4 -> stages.wb.register)
            /\ ChangesOnly({"register_file", "instruction_count"},
                           pipeline_state, stages.wb.state)
            /\ ChangesOnly({"memory", "branch_count", "procedure_count"},
                           stages.wb.state, stages.mem.state)
            /\ stages.ex.state = stages.mem.state
            /\ stages.id.state = stages.ex.state
            /\ ChangesOnly({"program_counter"}, stages.id.state, stages.if.state)
            /\ ChangesOnly({"program_counter"}, stages.if.state, pipeline_state')
            /\ (\A i \in StageIndices : next_pipeline_registers'[i].flush_signal = None)
                    => pipeline_state' = stages.if.state]_vars

\* lui x2,4; bne x0,x0,8; addi x1,x0,5; sw x2,0(x2); addi x1,x0,1: in the
\* last step WB wrote 5 to x1 for the addi and counted it, and MEM stored
\* the word of sw.
WitnessSingleWriter ==
    /\ next_pipeline_registers[4].instruction = ITypeInstruction("addi", 1, 0, 5)
    /\ next_pipeline_registers[3].instruction = STypeInstruction("sw", 2, 2, 0)
    /\ next_pipeline_registers[2].instruction = ITypeInstruction("addi", 1, 0, 1)
    /\ Reg(pipeline_state, 1) = PyInt(5)
    /\ load_word(pipeline_state.memory, PyInt(2 ^ 14)) = PyInt(2 ^ 14)
    /\ pipeline_state.performance_metrics.instruction_count = 3

(***************************************************************************)
(* Word writes to CSR addresses next to each other.                        *)
(***************************************************************************)
\* CSR addresses up to three apart, the highest address that may be
\* written (0x8FF) and the last address of the CSR space.
CsrWordAddresses == {0, 1, 2, 3, 4, 7, 2303, 4095}
CsrWordValues == {<<57005, 48879>>, PyInt(1), MaxUInt32}

\* csr_registers.store_word(address, value).
CsrStoreWord ==
    /\ calls < MaxCsrCalls
    /\ \E address \in CsrWordAddresses, value \in CsrWordValues :
          \E r \in {csr_store_word(storage.csr_registers, address, value)} :
            /\ storage' = [storage EXCEPT !.csr_registers = r.csr]
            /\ last_call' = Call("csr_store_word", 4, address, value, r.error)
    /\ calls' = calls + 1
    /\ EnginesIdle

CsrWordNext == CsrStoreWord

CsrWordSpec == StorageInit /\ [][CsrWordNext]_vars

\* The last call wrote a word to a CSR.
WroteCsrWord(call) == call.op = "csr_store_word" /\ call.error = NoError

\* C39: CSRs are independent 32-bit registers: after a word write of v to a
\* permitted CSR address a, a word write to another permitted address b,
\* also one, two or three away from a, leaves the word read from a equal
\* to v; and no word write, not even at 4095, puts a byte outside the
\* addresses 0 .. 4095.
CsrIndependence ==
    /\ [][(/\ WroteCsrWord(last_call)
           /\ WroteCsrWord(last_call')
           /\ calls' = calls + 1
           /\ last_call'.address # last_call.address)
            => csr_load_word(storage'.csr_registers, last_call.address).value
                    = last_call.value]_vars
    /\ [](\A key \in DOMAIN storage.csr_registers.memory_file :
                LessEq(PyInt(0), key) /\ LessEq(key, PyInt(4095)))

(***************************************************************************)
(* A hazard stall ends.                                                    *)
(***************************************************************************)
\* Producers and consumers: add reads x1, addi x1,x1,1 reads the register
\* it writes, addi x0,x0,7 writes x0 only.
HazardPool ==
    << ITypeInstruction("addi", 1, 0, 5),
       RTypeInstruction("add", 2, 1, 1),
       ITypeInstruction("addi", 0, 0, 7),
       ITypeInstruction("addi", 1, 1, 1) >>

\* The programs over these instructions and the further programs, with
\* hazard detection.
HazardInit ==
    /\ instruction_memory \in
            {LoadProgram(program) :
                program \in ProgramsOver(HazardPool, MaxProgLen) \cup ScenarioPrograms}
    /\ detect_data_hazards = TRUE
    /\ single_state = RiscvArchitecturalState
    /\ single_register = PipelineRegister
    /\ single_exception = NoException
    /\ pipeline_state = RiscvArchitecturalState
    /\ pipeline_registers = EmptyPipeline
    /\ pipeline_exception = NoException
    /\ next_pipeline_registers = EmptyPipeline
    /\ data_hazards = 0
    /\ cycles = 0
    /\ storage = RiscvArchitecturalState
    /\ last_call = NoCall
    /\ calls = 0

\* Pipeline.run steps while the pipeline is not done, and the single-cycle
\* run before it steps while there is an instruction at the program
\* counter: a step that can be taken is taken.
FairSpec ==
    HazardInit /\ [][Next]_vars /\ WF_vars(SingleStep) /\ WF_vars(PipelineCycle)

ProgramAddresses == {InstructionLength * n : n \in 0 .. (MaxProgLen + 2)}

\* In the last step ID held the instruction at address a back.
HeldAt(a) ==
    /\ next_pipeline_registers[1].flush_signal = FlushSignal(TRUE, PyInt(a))
    /\ pipeline_registers[1] = PipelineRegister
\* In the last step the instruction at address a was in WB.
WrittenBackAt(a) ==
    /\ next_pipeline_registers[4].instruction # EmptyInstruction
    /\ next_pipeline_registers[4].address_of_instruction = PyInt(a)
    /\ next_pipeline_registers[4].instruction = instruction_memory[a]

\* The pipeline run is over: it is done or a stage raised.
PipelineRunOver == PipelineDone \/ pipeline_exception # NoException

\* C40: a hazard stall ends.  The instruction that ID holds back in a
\* straight-line program is fetched again at its own address and gets to
\* WB, unless a stage raises before; and every run of a program whose
\* branches and jumps go forward gets done or ends with an exception,
\* whatever hazards it contains.
HazardStallEnds ==
    /\ \A a \in ProgramAddresses :
            (HeldAt(a) /\ StraightLine(instruction_memory))
                ~> (WrittenBackAt(a) \/ pipeline_exception # NoException)
    /\ <>PipelineRunOver

\* addi x1,x0,5; add x2,x1,x1: the add, held back once, was in WB in the
\* last step and x2 is 10.
WitnessHazardStallEnds ==
    /\ ProgramIs(S5Program)
    /\ data_hazards = 1
    /\ WrittenBackAt(4)
    /\ Reg(pipeline_state, 2) = PyInt(10)

====
